---- MODULE Spec2Model ----
(***************************************************************************)
(* A model of the HelioVerify verification engine,                         *)
(* src/tools/solver/main_solver.py: Z3MicroservicesSolver.verify and the   *)
(* analyzers it calls.                                                      *)
(*                                                                         *)
(* Strings the code takes apart (paths, middleware names, service and      *)
(* route names, HTTP methods) are sequences of one-character strings;      *)
(* strings it only compares or joins (communication end points and types) *)
(* are TLA+ strings.  A Python dict is a sequence of [key, value] entries  *)
(* in insertion order with distinct keys.  A formatted message is a record *)
(* [kind, subject] holding the template and the values put into it.       *)
(***************************************************************************)
EXTENDS Naturals, Sequences, FiniteSets, TLC

VARIABLES
    solver,        \* self.solver: the names of the tracked assertions it holds
    route_vars,    \* self.route_vars: term name -> Bool(term name)
    service_vars,  \* self.service_vars: service name -> Bool("service_" + name)
    specs_data,    \* self.specs_data
    routes_data,   \* self.routes_data
    result,        \* the VerificationResult of the last verify call
    pc,            \* "constructed", or how the last verify call ended
    calls,         \* verify calls made on this engine
    run,           \* what the last verify call did to the solver
    files,         \* what the last verify call found at its two paths
    norm_in,       \* argument of the last _normalize_path call
    norm_out,      \* its return value
    analyzed,      \* the last analyzer call: which analyzer, on what
    findings,      \* the list it returned
    file_paths,    \* the files given to the last RouteParser.parse_files call
    final_spec,    \* what it returned
    printed,       \* what it printed
    search         \* where the two graph searches of verify stand, step by step

vars == <<solver, route_vars, service_vars, specs_data, routes_data, result,
          pc, calls, run, files, norm_in, norm_out, analyzed, findings,
          file_paths, final_spec, printed, search>>

parser_vars == <<file_paths, final_spec, printed>>

engine_vars == <<solver, route_vars, service_vars, specs_data, routes_data,
                 result, pc, calls, run, files>>

(***************************************************************************)
(* Bounds of the model.                                                    *)
(***************************************************************************)
MaxPathLen == 4       \* characters of a path given to _normalize_path
MaxComms == 3         \* entries of communications
MaxCalls == 2         \* verify calls on one engine
MaxAuthRequired == 2  \* entries of policies.authRequired
MaxImplRoutes == 2    \* routes of the implementation document
MaxMoreRoutes == 1    \* routes beside the one the security analyzer is tried on
MaxFiles == 2         \* files given to parse_files

(***************************************************************************)
(* Sequences and strings.                                                  *)
(***************************************************************************)
Range(s) == {s[i] : i \in DOMAIN s}

SeqsUpTo(S, n) == UNION {[1..k -> S] : k \in 0..n}

RECURSIVE Concat(_)
Concat(ss) == IF ss = <<>> THEN <<>> ELSE Head(ss) \o Concat(Tail(ss))

\* str.endswith / the "in" operator on strings
Contains(sub, s) ==
    \E i \in 1..(Len(s) + 1 - Len(sub)) : SubSeq(s, i, i + Len(sub) - 1) = sub

UpperChars == <<"A", "B", "C", "D", "E", "F", "G", "H", "I", "J", "K", "L", "M",
                "N", "O", "P", "Q", "R", "S", "T", "U", "V", "W", "X", "Y", "Z">>
LowerChars == <<"a", "b", "c", "d", "e", "f", "g", "h", "i", "j", "k", "l", "m",
                "n", "o", "p", "q", "r", "s", "t", "u", "v", "w", "x", "y", "z">>
Digits == {"0", "1", "2", "3", "4", "5", "6", "7", "8", "9"}

\* str.lower()
LowerOf == [c \in Range(UpperChars) |->
               LowerChars[CHOOSE i \in DOMAIN UpperChars : UpperChars[i] = c]]
LowerChar(c) == IF c \in DOMAIN LowerOf THEN LowerOf[c] ELSE c
Lower(s) == [i \in DOMAIN s |-> LowerChar(s[i])]

\* the regular expression class \w
WordChars == Range(UpperChars) \cup Range(LowerChars) \cup Digits \cup {"_"}
IsWordChar(c) == c \in WordChars

\* the characters str.split() separates at
IsSpace(c) == c \in {" "}

\* str.split(): the maximal runs of non-space characters
RECURSIVE SplitFrom(_, _, _)
SplitFrom(s, cur, acc) ==
    IF s = <<>> THEN (IF cur = <<>> THEN acc ELSE Append(acc, cur))
    ELSE IF IsSpace(Head(s))
         THEN SplitFrom(Tail(s), <<>>, IF cur = <<>> THEN acc ELSE Append(acc, cur))
         ELSE SplitFrom(Tail(s), Append(cur, Head(s)), acc)
Split(s) == SplitFrom(s, <<>>, <<>>)

\* a formatted message
Msg(kind, subject) == [kind |-> kind, subject |-> subject]

POST == <<"P", "O", "S", "T">>
PUT == <<"P", "U", "T">>
DELETE == <<"D", "E", "L", "E", "T", "E">>
GET == <<"G", "E", "T">>

(***************************************************************************)
(* Z3MicroservicesSolver._normalize_path                                   *)
(***************************************************************************)
\* the first position from i on that holds no \w character (Len(path) + 1 if none)
RECURSIVE WordEnd(_, _)
WordEnd(path, i) ==
    IF i <= Len(path) /\ IsWordChar(path[i]) THEN WordEnd(path, i + 1) ELSE i

\* re.sub(r':(\w+)', r'{\1}', path) from position i on: leftmost non-overlapping
\* matches, \w+ greedy
RECURSIVE SubParamsFrom(_, _)
SubParamsFrom(path, i) ==
    IF i > Len(path) THEN <<>>
    ELSE IF path[i] = ":" /\ WordEnd(path, i + 1) > i + 1
         THEN LET e == WordEnd(path, i + 1)
              IN  <<"{">> \o SubSeq(path, i + 1, e - 1) \o <<"}">> \o SubParamsFrom(path, e)
         ELSE <<path[i]>> \o SubParamsFrom(path, i + 1)

SubParams(path) == SubParamsFrom(path, 1)

_normalize_path(path) ==
    LET p == SubParams(path)
    IN  IF Len(p) > 1 /\ p[Len(p)] = "/" THEN SubSeq(p, 1, Len(p) - 1) ELSE p

(***************************************************************************)
(* SecurityAnalyzer                                                        *)
(***************************************************************************)
auth_keywords == << <<"a", "u", "t", "h">>,
                    <<"a", "u", "t", "h", "e", "n", "t", "i", "c", "a", "t", "e">>,
                    <<"v", "e", "r", "i", "f", "y">>,
                    <<"p", "r", "o", "t", "e", "c", "t">>,
                    <<"j", "w", "t">> >>
validation_keywords == << <<"v", "a", "l", "i", "d", "a", "t", "e">>,
                          <<"s", "a", "n", "i", "t", "i", "z", "e">>,
                          <<"c", "h", "e", "c", "k">> >>

\* any(keyword in mw.lower() for keyword in keywords)
AnyKeywordIn(keywords, mw) ==
    LET lowered == Lower(mw)
    IN  \E k \in DOMAIN keywords : Contains(keywords[k], lowered)

\* a plausible slip: the names are not lower-cased
HasAuthCaseSensitive(route) ==
    \E m \in DOMAIN route.middleware : \E k \in DOMAIN auth_keywords :
        Contains(auth_keywords[k], route.middleware[m])

_has_auth_middleware(route) ==
    \E m \in DOMAIN route.middleware : AnyKeywordIn(auth_keywords, route.middleware[m])

\* a plausible slip: the names are not lower-cased
HasValidationCaseSensitive(route) ==
    \E m \in DOMAIN route.middleware : \E k \in DOMAIN validation_keywords :
        Contains(validation_keywords[k], route.middleware[m])

_has_validation_middleware(route) ==
    \E m \in DOMAIN route.middleware : AnyKeywordIn(validation_keywords, route.middleware[m])

SecurityWarnings(route) ==
    (IF route.method \in {POST, PUT, DELETE} /\ ~_has_auth_middleware(route)
     THEN <<Msg("Security Warning: Missing authentication on sensitive route",
                <<route.method, route.path>>)>>
     ELSE <<>>)
    \o
    (IF (Contains(<<":">>, route.path) \/ Contains(<<"{">>, route.path))
        /\ ~_has_validation_middleware(route)
     THEN <<Msg("Security Warning: Missing input validation on parameterized route",
                <<route.path>>)>>
     ELSE <<>>)

\* SecurityAnalyzer.analyze over routes_data['routes']
SecurityAnalyze(routes) == Concat([i \in DOMAIN routes |-> SecurityWarnings(routes[i])])

(***************************************************************************)
(* Dependency graphs: a dict source -> list of targets                     *)
(***************************************************************************)
DictKeys(d) == [i \in DOMAIN d |-> d[i].key]
HasKey(d, k) == \E i \in DOMAIN d : d[i].key = k
DictGet(d, k, default) ==
    IF HasKey(d, k) THEN d[CHOOSE i \in DOMAIN d : d[i].key = k].value ELSE default

\* graph.setdefault(source, []).append(target)
SetDefaultAppend(graph, source, target) ==
    IF HasKey(graph, source)
    THEN [i \in DOMAIN graph |->
            IF graph[i].key = source
            THEN [key |-> source, value |-> Append(graph[i].value, target)]
            ELSE graph[i]]
    ELSE Append(graph, [key |-> source, value |-> <<target>>])

\* DependencyAnalyzer._build_dependency_graph: every edge, whatever its type
RECURSIVE BuildAllFrom(_, _)
BuildAllFrom(comms, graph) ==
    IF comms = <<>> THEN graph
    ELSE LET comm == Head(comms)
         IN  BuildAllFrom(Tail(comms),
                 IF comm.source # "" /\ comm.target # ""
                 THEN SetDefaultAppend(graph, comm.source, comm.target)
                 ELSE graph)

\* the graph of the sync edges alone
RECURSIVE BuildSyncFrom(_, _)
BuildSyncFrom(comms, graph) ==
    IF comms = <<>> THEN graph
    ELSE LET comm == Head(comms)
         IN  BuildSyncFrom(Tail(comms),
                 IF comm.source # "" /\ comm.target # "" /\ comm.type = "sync"
                 THEN SetDefaultAppend(graph, comm.source, comm.target)
                 ELSE graph)

_build_dependency_graph(specs) == BuildAllFrom(specs.communications, <<>>)

\* PerformanceAnalyzer.build_dependency_graph
build_dependency_graph(specs) == BuildSyncFrom(specs.communications, <<>>)

(***************************************************************************)
(* DependencyAnalyzer._detect_cycles and find_cycles                       *)
(***************************************************************************)
\* path.index(node)
IndexOf(seq, x) == CHOOSE i \in DOMAIN seq : seq[i] = x /\ \A j \in 1..(i - 1) : seq[j] # x

\* The nested dfs(node) with its enclosing path, visited and cycles as st; the
\* loop over graph.get(node, []) is DfsNeighbours from position i on.
RECURSIVE Dfs(_, _, _)
RECURSIVE DfsNeighbours(_, _, _, _)
\* a plausible slip: the whole path is taken for the cycle
DfsWholePath(graph, neighbours, i, st) ==
    IF i > Len(neighbours) THEN st
    ELSE LET neighbour == neighbours[i]
         IN  IF neighbour \in Range(st.path)
             THEN DfsNeighbours(graph, neighbours, i + 1,
                      [st EXCEPT !.cycles = Append(@, st.path \o <<neighbour>>)])
             ELSE IF neighbour \notin st.visited
                  THEN DfsNeighbours(graph, neighbours, i + 1, Dfs(graph, neighbour, st))
                  ELSE DfsNeighbours(graph, neighbours, i + 1, st)

DfsNeighbours(graph, neighbours, i, st) ==
    IF i > Len(neighbours) THEN st
    ELSE LET neighbour == neighbours[i]
         IN  IF neighbour \in Range(st.path)
             THEN DfsNeighbours(graph, neighbours, i + 1,
                      [st EXCEPT !.cycles = Append(@,
                          SubSeq(st.path, IndexOf(st.path, neighbour), Len(st.path))
                              \o <<neighbour>>)])
             ELSE IF neighbour \notin st.visited
                  THEN DfsNeighbours(graph, neighbours, i + 1, Dfs(graph, neighbour, st))
                  ELSE DfsNeighbours(graph, neighbours, i + 1, st)

Dfs(graph, node, st) ==
    LET entered == [st EXCEPT !.path = Append(@, node), !.visited = @ \cup {node}]
        done == DfsNeighbours(graph, DictGet(graph, node, <<>>), 1, entered)
    IN  [done EXCEPT !.path = SubSeq(@, 1, Len(@) - 1)]

\* for node in list(graph.keys()): if node not in visited: dfs(node)
RECURSIVE DfsRoots(_, _, _)
DfsRoots(graph, keys, st) ==
    IF keys = <<>> THEN st
    ELSE DfsRoots(graph, Tail(keys),
             IF Head(keys) \notin st.visited THEN Dfs(graph, Head(keys), st) ELSE st)

\* tuple(sorted(cycle)): two sorted tuples are equal exactly when every element
\* occurs as often in the one as in the other
SortedTuple(cycle) ==
    [x \in Range(cycle) |-> Cardinality({i \in DOMAIN cycle : cycle[i] = x})]

\* a plausible slip: every cycle found is kept
KeepEveryCycle(cycles, unique_cycles, seen) ==
    unique_cycles \o [i \in DOMAIN cycles |-> SubSeq(cycles[i], 1, Len(cycles[i]) - 1)]

\* the loop that fills unique_cycles and seen
RECURSIVE UniqueCycles(_, _, _)
UniqueCycles(cycles, unique_cycles, seen) ==
    IF cycles = <<>> THEN unique_cycles
    ELSE LET cycle == Head(cycles)
             sorted_cycle == SortedTuple(cycle)
         IN  IF sorted_cycle \notin seen
             THEN UniqueCycles(Tail(cycles),
                      Append(unique_cycles, SubSeq(cycle, 1, Len(cycle) - 1)),
                      seen \cup {sorted_cycle})
             ELSE UniqueCycles(Tail(cycles), unique_cycles, seen)

RawCycles(graph) ==
    DfsRoots(graph, DictKeys(graph), [path |-> <<>>, visited |-> {}, cycles |-> <<>>]).cycles

\* a plausible slip: the search starts from the first key alone
DetectFromFirstKey(graph) ==
    UniqueCycles(DfsRoots(graph, SubSeq(DictKeys(graph), 1, IF graph = <<>> THEN 0 ELSE 1),
                          [path |-> <<>>, visited |-> {}, cycles |-> <<>>]).cycles,
                 <<>>, {})

_detect_cycles(graph) == UniqueCycles(RawCycles(graph), <<>>, {})

CycleError == "Architectural Error: Circular dependency detected"

find_cycles(specs) ==
    LET cycles == _detect_cycles(_build_dependency_graph(specs))
    IN  [i \in DOMAIN cycles |-> Msg(CycleError, cycles[i] \o <<cycles[i][1]>>)]

(***************************************************************************)
(* PerformanceAnalyzer                                                     *)
(***************************************************************************)
\* the neighbours of curr that are not on p, each with its extended path, in order
RECURSIVE Pushed(_, _, _)
Pushed(neighbours, p, i) ==
    IF i > Len(neighbours) THEN <<>>
    ELSE (IF neighbours[i] \notin Range(p)
          THEN <<[node |-> neighbours[i], path |-> Append(p, neighbours[i])]>>
          ELSE <<>>) \o Pushed(neighbours, p, i + 1)

\* while stack: ...
RECURSIVE ChainsWhile(_, _, _)
ChainsWhile(adj_list, stack, chains) ==
    IF stack = <<>> THEN chains
    ELSE LET top == stack[Len(stack)]
             rest == SubSeq(stack, 1, Len(stack) - 1)
             pushed == Pushed(DictGet(adj_list, top.node, <<>>), top.path, 1)
             is_leaf == pushed = <<>>
         IN  ChainsWhile(adj_list, rest \o pushed,
                 IF is_leaf /\ Len(top.path) > 1 THEN Append(chains, top.path) ELSE chains)

\* for node in adj_list: ...
RECURSIVE ChainsFor(_, _, _)
ChainsFor(adj_list, keys, chains) ==
    IF keys = <<>> THEN chains
    ELSE ChainsFor(adj_list, Tail(keys),
             ChainsWhile(adj_list, <<[node |-> Head(keys), path |-> <<Head(keys)>>]>>, chains))

_find_synchronous_chains(specs) ==
    LET adj_list == build_dependency_graph(specs)
    IN  ChainsFor(adj_list, DictKeys(adj_list), <<>>)

LongChainLimit == 3

\* a plausible slip: chains of three nodes are reported too
ChainWarningsFromLimit(chains) ==
    Concat([i \in DOMAIN chains |->
        IF Len(chains[i]) >= LongChainLimit
        THEN <<Msg("Performance Warning: Long synchronous call chain detected", chains[i])>>
        ELSE <<>>])

ChainWarnings(chains) ==
    Concat([i \in DOMAIN chains |->
        IF Len(chains[i]) > LongChainLimit
        THEN <<Msg("Performance Warning: Long synchronous call chain detected", chains[i])>>
        ELSE <<>>])

\* PerformanceAnalyzer.analyze
PerformanceAnalyze(specs) ==
    ChainWarnings(_find_synchronous_chains(specs))
    \o (IF specs.policies.timeout = <<>>
        THEN <<Msg("Performance Warning: No global timeout policies defined", <<>>)>>
        ELSE <<>>)

(***************************************************************************)
(* Z3MicroservicesSolver: loading and symbolic modelling                   *)
(***************************************************************************)
\* f"{method} {path}"
RouteSpecStr(method, path) == method \o <<" ">> \o path

\* the routes dict parse_specs_file builds for one service
RECURSIVE ParseRoutes(_)
ParseRoutes(routes) ==
    IF routes = <<>> THEN <<>>
    ELSE LET r == Head(routes)
         IN  (IF r.value.method # <<>> /\ r.value.path # <<>>
              THEN <<[key |-> r.key, value |-> RouteSpecStr(r.value.method, r.value.path)]>>
              ELSE <<>>) \o ParseRoutes(Tail(routes))

\* parse_specs_file on a readable JSON document
parse_specs_file(doc) ==
    [services |-> [i \in DOMAIN doc.services |->
                      [key |-> doc.services[i].key,
                       value |-> [routes |-> ParseRoutes(doc.services[i].value.routes)]]],
     communications |-> doc.communications,
     policies |-> doc.policies]

\* verify, lines 289-292: the routes of every service, in document order
AllRoutes(doc) == Concat([i \in DOMAIN doc.services |-> doc.services[i].value.routes])

\* d[k] = v
DictSet(d, k, v) ==
    IF HasKey(d, k)
    THEN [i \in DOMAIN d |-> IF d[i].key = k THEN [key |-> k, value |-> v] ELSE d[i]]
    ELSE Append(d, [key |-> k, value |-> v])

\* z3.Bool(name)
Bool(name) == [sort |-> "Bool", name |-> name]

\* f"{service_name}_{route_name}"
TermName(service_name, route_name) == service_name \o <<"_">> \o route_name
\* f"service_{service_name}"
ServiceTermName(service_name) == <<"s", "e", "r", "v", "i", "c", "e", "_">> \o service_name

\* _create_z3_variables: the dicts after the loops, from the dicts before
RECURSIVE CreateRouteVars(_, _, _)
CreateRouteVars(service_name, routes, rv) ==
    IF routes = <<>> THEN rv
    ELSE LET name == TermName(service_name, Head(routes).key)
         IN  CreateRouteVars(service_name, Tail(routes), DictSet(rv, name, Bool(name)))

RECURSIVE CreateVars(_, _)
CreateVars(services, vs) ==
    IF services = <<>> THEN vs
    ELSE LET svc == Head(services)
         IN  CreateVars(Tail(services),
                 [service_vars |-> DictSet(vs.service_vars, svc.key,
                                           Bool(ServiceTermName(svc.key))),
                  route_vars |-> CreateRouteVars(svc.key, svc.value.routes, vs.route_vars)])

\* the Bool() calls of one _create_z3_variables run, in order
CreatedTerms(services) ==
    Concat([i \in DOMAIN services |->
        <<ServiceTermName(services[i].key)>>
        \o [j \in DOMAIN services[i].value.routes |->
               TermName(services[i].key, services[i].value.routes[j].key)]])

(***************************************************************************)
(* Matching a spec route against the implementation routes                 *)
(***************************************************************************)
RouteMatches(r, method, path) ==
    r.method = method /\ _normalize_path(r.path) = _normalize_path(path)

\* any(... for r in defined_routes)
RouteFound(defined_routes, method, path) ==
    \E i \in DOMAIN defined_routes : RouteMatches(defined_routes[i], method, path)

\* a plausible slip: the last matching route is taken
LastMatch(defined_routes, method, path) ==
    IF RouteFound(defined_routes, method, path)
    THEN <<defined_routes[CHOOSE i \in DOMAIN defined_routes :
              /\ RouteMatches(defined_routes[i], method, path)
              /\ \A j \in (i + 1)..Len(defined_routes) :
                     ~RouteMatches(defined_routes[j], method, path)]>>
    ELSE <<>>

\* next((r for r in defined_routes if ...), None), as a list of at most one route
FirstMatch(defined_routes, method, path) ==
    IF RouteFound(defined_routes, method, path)
    THEN <<defined_routes[CHOOSE i \in DOMAIN defined_routes :
              /\ RouteMatches(defined_routes[i], method, path)
              /\ \A j \in 1..(i - 1) : ~RouteMatches(defined_routes[j], method, path)]>>
    ELSE <<>>

MissingImplementation ==
    "Missing Implementation: Route is defined in the spec but is not found in routes.json"

\* _check_spec_implementation_consistency
ConsistencyOf(service_name, route, defined_routes) ==
    LET parts == Split(route.value)
    IN  IF Len(parts) >= 2 /\ ~RouteFound(defined_routes, parts[1], parts[2])
        THEN <<Msg(MissingImplementation, <<route.key, parts[1], parts[2], service_name>>)>>
        ELSE <<>>

\* a plausible slip: a route a policy entry names is left to the policy check
ConsistencySkippingPolicyRoutes(specs, defined_routes) ==
    Concat([i \in DOMAIN specs.services |->
        Concat([j \in DOMAIN specs.services[i].value.routes |->
            IF specs.services[i].value.routes[j].key \in Range(specs.policies.authRequired)
            THEN <<>>
            ELSE ConsistencyOf(specs.services[i].key, specs.services[i].value.routes[j],
                               defined_routes)])])

_check_spec_implementation_consistency(specs, defined_routes) ==
    Concat([i \in DOMAIN specs.services |->
        Concat([j \in DOMAIN specs.services[i].value.routes |->
            ConsistencyOf(specs.services[i].key, specs.services[i].value.routes[j],
                          defined_routes)])])

(***************************************************************************)
(* Z3MicroservicesSolver._add_policy_constraints                           *)
(***************************************************************************)
AuthMissing == "policy_violation:auth_missing_on_"
RouteMissing == "policy_violation:required_route_missing_"

\* the name given to assert_and_track: prefix + z3_var_name.  No name of the model
\* holds a ':', so a prefix never occurs inside a z3_var_name.
Tracked(prefix, z3_var_name) == [prefix |-> prefix, var |-> z3_var_name]

\* The places <<i, j>> of the spec routes called route_name, in document order.
SpecPlaces(specs, route_name) ==
    {<<i, j>> \in UNION {{i} \X DOMAIN specs.services[i].value.routes : i \in DOMAIN specs.services} :
        specs.services[i].value.routes[j].key = route_name}

\* the first of them: where the two loops stop (found_spec)
FirstPlace(places) ==
    CHOOSE p \in places : \A q \in places : p[1] < q[1] \/ (p[1] = q[1] /\ p[2] <= q[2])

\* a plausible slip: a name no service declares counts as a missing route
UndeclaredIsMissing(specs, defined_routes, rvars, route_name_in_policy) ==
    LET places == SpecPlaces(specs, route_name_in_policy)
    IN  IF places = {}
        THEN [op |-> "track", name |-> Tracked(RouteMissing, route_name_in_policy)]
        ELSE LET at == FirstPlace(places)
                 service_name == specs.services[at[1]].key
                 route == specs.services[at[1]].value.routes[at[2]]
                 parts == Split(route.value)
                 z3_var_name == TermName(service_name, route.key)
             IN  IF Len(parts) < 2 THEN [op |-> "raise"]
                 ELSE LET route_impl == FirstMatch(defined_routes, parts[1], parts[2])
                      IN  IF ~HasKey(rvars, z3_var_name) THEN [op |-> "none"]
                          ELSE IF route_impl # <<>>
                               THEN IF ~_has_auth_middleware(route_impl[1])
                                    THEN [op |-> "track",
                                          name |-> Tracked(AuthMissing, z3_var_name)]
                                    ELSE [op |-> "none"]
                               ELSE [op |-> "track",
                                     name |-> Tracked(RouteMissing, z3_var_name)]

\* One pass of the outer loop, for one entry of policies.authRequired:
\* [op |-> "none"], [op |-> "track", name |-> ...] or [op |-> "raise"]
\* (method, path = route_spec_str.split()[:2] raises ValueError on fewer than two parts).
PolicyEntry(specs, defined_routes, rvars, route_name_in_policy) ==
    LET places == SpecPlaces(specs, route_name_in_policy)
    IN  IF places = {} THEN [op |-> "none"]
        ELSE LET at == FirstPlace(places)
                 service_name == specs.services[at[1]].key
                 route == specs.services[at[1]].value.routes[at[2]]
                 parts == Split(route.value)
                 z3_var_name == TermName(service_name, route.key)
             IN  IF Len(parts) < 2 THEN [op |-> "raise"]
                 ELSE LET route_impl == FirstMatch(defined_routes, parts[1], parts[2])
                      IN  IF ~HasKey(rvars, z3_var_name) THEN [op |-> "none"]
                          ELSE IF route_impl # <<>>
                               THEN IF ~_has_auth_middleware(route_impl[1])
                                    THEN [op |-> "track",
                                          name |-> Tracked(AuthMissing, z3_var_name)]
                                    ELSE [op |-> "none"]
                               ELSE [op |-> "track",
                                     name |-> Tracked(RouteMissing, z3_var_name)]

\* The outer loop from entry i on.  st = [solver, registered, raised]:
\* assert_and_track raises Z3Exception ("named assertion defined twice") for a
\* name the solver already holds, and the loop ends there.
RECURSIVE PolicyLoop(_, _, _, _, _)
PolicyLoop(specs, defined_routes, rvars, i, st) ==
    IF i > Len(specs.policies.authRequired) THEN st
    ELSE LET e == PolicyEntry(specs, defined_routes, rvars, specs.policies.authRequired[i])
         IN  IF e.op = "raise" THEN [st EXCEPT !.raised = TRUE]
             ELSE IF e.op = "none"
                  THEN PolicyLoop(specs, defined_routes, rvars, i + 1, st)
                  ELSE IF e.name \in Range(st.solver)
                       THEN [st EXCEPT !.raised = TRUE]
                       ELSE PolicyLoop(specs, defined_routes, rvars, i + 1,
                                [st EXCEPT !.solver = Append(@, e.name),
                                           !.registered = Append(@, e.name)])

_add_policy_constraints(specs, defined_routes, rvars, sol) ==
    PolicyLoop(specs, defined_routes, rvars, 1,
               [solver |-> sol, registered |-> <<>>, raised |-> FALSE])

(***************************************************************************)
(* The solver: every tracked assertion is BoolVal(False)                   *)
(***************************************************************************)
\* solver.check() == sat
IsSat(sol) == sol = <<>>

\* the subsequence of s at the positions in idx
RECURSIVE Pick(_, _, _)
Pick(s, idx, i) ==
    IF i > Len(s) THEN <<>>
    ELSE (IF i \in idx THEN <<s[i]>> ELSE <<>>) \o Pick(s, idx, i + 1)

\* solver.unsat_core() after an unsat check: z3 returns some subset of the tracked
\* names that is unsatisfiable by itself; here every non-empty subset is one.
UnsatCores(sol) == {Pick(sol, idx, 1) : idx \in (SUBSET DOMAIN sol) \ {{}}}

\* _interpret_unsat_core, given the core
AuthMissingError ==
    "Policy Violation: Authentication is required for route but is not implemented in its middleware"
RouteMissingError ==
    "Policy Violation: The route, which requires authentication, is not implemented"

\* a plausible slip: the two templates exchanged
CoreErrorExchanged(core_item) ==
    IF core_item.prefix = AuthMissing
    THEN Msg(RouteMissingError, core_item.var)
    ELSE Msg(AuthMissingError, core_item.var)

CoreError(core_item) ==
    IF core_item.prefix = AuthMissing
    THEN Msg(AuthMissingError, core_item.var)
    ELSE Msg(RouteMissingError, core_item.var)

_interpret_unsat_core(unsat_core) == [i \in DOMAIN unsat_core |-> CoreError(unsat_core[i])]

(***************************************************************************)
(* Z3MicroservicesSolver.__init__ and verify                               *)
(***************************************************************************)
\* Optional[...]: None is <<>>, a value v is <<v>>
None == <<>>
Some(v) == <<v>>

VerificationResult(is_sat, model, errors, warnings, suggestions) ==
    [is_sat |-> is_sat, model |-> model, errors |-> errors,
     warnings |-> warnings, suggestions |-> suggestions]

\* no call has returned
NoResult == VerificationResult(FALSE, None, <<>>, <<>>, <<>>)

\* {} read through .get(key, default)
EmptySpecs == [services |-> <<>>, communications |-> <<>>,
               policies |-> [authRequired |-> <<>>, timeout |-> <<>>]]
EmptyRoutes == [services |-> <<>>, routes |-> <<>>]

\* what a call did: the Bool() terms it made, the names it gave to
\* assert_and_track, its calls of solver.check()
RunLog(allocated, registered, checks) ==
    [allocated |-> allocated, registered |-> registered, checks |-> checks]

\* before verify is called no search has begun
NotSearching ==
    [phase |-> "idle", entry |-> "", specs |-> EmptySpecs, keys |-> <<>>, frames |-> <<>>,
     path |-> <<>>, visited |-> {}, cycles |-> <<>>, entered |-> <<>>,
     stack |-> <<>>, chains |-> <<>>]

Init ==
    /\ solver = <<>>
    /\ route_vars = <<>>
    /\ service_vars = <<>>
    /\ specs_data = EmptySpecs
    /\ routes_data = EmptyRoutes
    /\ result = NoResult
    /\ pc = "constructed"
    /\ calls = 0
    /\ run = RunLog(<<>>, <<>>, 0)
    /\ files = <<>>
    /\ norm_in = <<>>
    /\ norm_out = <<>>
    /\ analyzed = <<>>
    /\ findings = <<>>
    /\ file_paths = <<>>
    /\ final_spec = <<>>
    /\ printed = <<>>
    /\ search = NotSearching

\* z3 leaves a constant no assertion mentions out of the model: with every
\* tracked assertion BoolVal(False), a sat solver holds no assertion at all and
\* _z3_model_to_dict returns {}.
_z3_model_to_dict(sol) == <<>>

\* What one verify call on two documents that load leaves behind: the engine's
\* fields after it, its return value, how it ended ("returned" or "raised") and
\* its log, from the engine's fields before it.  One outcome per unsat core z3
\* may return.
Outcome(sol, rv, sv, specs, rdata, res, how, log) ==
    [solver |-> sol, route_vars |-> rv, service_vars |-> sv, specs_data |-> specs,
     routes_data |-> rdata, result |-> res, pc |-> how, run |-> log]

verify(spec_doc, routes_doc, self) ==
    LET specs == parse_specs_file(spec_doc)
        all_routes == AllRoutes(routes_doc)
        rdata == [services |-> routes_doc.services, routes |-> all_routes]
        circular_deps == find_cycles(specs)
        vs == CreateVars(specs.services,
                         [service_vars |-> self.service_vars, route_vars |-> self.route_vars])
        pol == _add_policy_constraints(specs, all_routes, vs.route_vars, self.solver)
        suggestions == _check_spec_implementation_consistency(specs, all_routes)
        warnings == SecurityAnalyze(all_routes) \o PerformanceAnalyze(specs)
        created == CreatedTerms(specs.services)
    IN  IF circular_deps # <<>>
        THEN {Outcome(self.solver, self.route_vars, self.service_vars, specs, rdata,
                      VerificationResult(FALSE, None, circular_deps, <<>>, <<>>),
                      "returned", RunLog(<<>>, <<>>, 0))}
        ELSE IF pol.raised
             THEN {Outcome(pol.solver, vs.route_vars, vs.service_vars, specs, rdata,
                           NoResult, "raised", RunLog(created, pol.registered, 0))}
             ELSE IF IsSat(pol.solver)
                  THEN {Outcome(pol.solver, vs.route_vars, vs.service_vars, specs, rdata,
                                VerificationResult(TRUE, Some(_z3_model_to_dict(pol.solver)),
                                                   <<>>, warnings, suggestions),
                                "returned", RunLog(created, pol.registered, 1))}
                  ELSE {Outcome(pol.solver, vs.route_vars, vs.service_vars, specs, rdata,
                                VerificationResult(FALSE, None,
                                                   _interpret_unsat_core(unsat_core),
                                                   warnings, suggestions),
                                "returned", RunLog(created, pol.registered, 1))
                            : unsat_core \in UnsatCores(pol.solver)}

\* the engine's fields verify reads
Self == [solver |-> solver, route_vars |-> route_vars, service_vars |-> service_vars]

\* a call verify(specs_path, routes_json_path)
Verify(spec_doc, routes_doc) ==
    \E o \in verify(spec_doc, routes_doc, Self) :
        /\ solver' = o.solver
        /\ route_vars' = o.route_vars
        /\ service_vars' = o.service_vars
        /\ specs_data' = o.specs_data
        /\ routes_data' = o.routes_data
        /\ result' = o.result
        /\ pc' = o.pc
        /\ run' = o.run
        /\ files' = <<"object", "object">>
        /\ calls' = calls + 1
        /\ UNCHANGED <<norm_in, norm_out, analyzed, findings, parser_vars, search>>

\* What verify can find at a path: a JSON object of the documented shape
\* ("object", with the document), no file ("missing"), a file open() may not
\* read ("unreadable": PermissionError, IsADirectoryError), text that is no JSON
\* ("invalid_json"), or JSON that is no object ("wrong_shape": an array).
FileKinds == {"object", "missing", "unreadable", "invalid_json", "wrong_shape"}
File(kind, doc) == [kind |-> kind, doc |-> doc]
NoDoc == <<>>

\* the exceptions the try of verify catches
CaughtKinds == {"missing", "invalid_json"}

LoadError == "Failed to load input files"

\* parse_specs_file: open and json.load raise on a missing, unreadable or
\* non-JSON file; specs_data.get raises AttributeError on a JSON array
SpecsLoad(specs_file) ==
    IF specs_file.kind = "object" THEN "loaded" ELSE
    IF specs_file.kind \in CaughtKinds THEN "caught" ELSE "raised"

\* open and json.load of the routes file inside the try; a JSON array loads
\* there and self.routes_data.get raises AttributeError after the try
RoutesLoad(routes_file) ==
    IF routes_file.kind \in {"object", "wrong_shape"} THEN "loaded" ELSE
    IF routes_file.kind \in CaughtKinds THEN "caught" ELSE "raised"

\* verify(specs_path, routes_json_path) on whatever is at the two paths
verify_files(specs_file, routes_file, self) ==
    LET kept == [solver |-> self.solver, route_vars |-> self.route_vars,
                 service_vars |-> self.service_vars]
        failed(specs, rdata, kind) ==
            {Outcome(self.solver, self.route_vars, self.service_vars, specs, rdata,
                     VerificationResult(FALSE, None, <<Msg(LoadError, kind)>>, <<>>, <<>>),
                     "returned", RunLog(<<>>, <<>>, 0))}
        raised(specs, rdata) ==
            {Outcome(self.solver, self.route_vars, self.service_vars, specs, rdata,
                     NoResult, "raised", RunLog(<<>>, <<>>, 0))}
    IN  IF SpecsLoad(specs_file) = "caught"
        THEN failed(self.specs_data, self.routes_data, specs_file.kind)
        ELSE IF SpecsLoad(specs_file) = "raised"
        THEN raised(self.specs_data, self.routes_data)
        ELSE IF RoutesLoad(routes_file) = "caught"
        THEN failed(parse_specs_file(specs_file.doc), self.routes_data, routes_file.kind)
        ELSE IF RoutesLoad(routes_file) = "raised"
        THEN raised(parse_specs_file(specs_file.doc), self.routes_data)
        ELSE IF routes_file.kind = "wrong_shape"
        THEN raised(parse_specs_file(specs_file.doc), "wrong_shape")
        ELSE verify(specs_file.doc, routes_file.doc, kept)

\* the engine's fields verify reads and the load may leave as they were
SelfData == [solver |-> solver, route_vars |-> route_vars, service_vars |-> service_vars,
             specs_data |-> specs_data, routes_data |-> routes_data]

\* a call verify(specs_path, routes_json_path) on two paths
VerifyFiles(specs_file, routes_file) ==
    \E o \in verify_files(specs_file, routes_file, SelfData) :
        /\ solver' = o.solver
        /\ route_vars' = o.route_vars
        /\ service_vars' = o.service_vars
        /\ specs_data' = o.specs_data
        /\ routes_data' = o.routes_data
        /\ result' = o.result
        /\ pc' = o.pc
        /\ run' = o.run
        /\ files' = <<specs_file.kind, routes_file.kind>>
        /\ calls' = calls + 1
        /\ UNCHANGED <<norm_in, norm_out, analyzed, findings, parser_vars, search>>

\* _normalize_path(path), called by itself
NormalizePath(path) ==
    /\ norm_in' = path
    /\ norm_out' = _normalize_path(path)
    /\ UNCHANGED <<engine_vars, analyzed, findings, parser_vars, search>>

\* MicroservicesAnalyzer.analyze_security_vulnerabilities(routes_data), called by itself
AnalyzeSecurity(routes) ==
    /\ analyzed' = [analyzer |-> "security", input |-> routes]
    /\ findings' = SecurityAnalyze(routes)
    /\ UNCHANGED <<engine_vars, norm_in, norm_out, parser_vars, search>>

\* MicroservicesAnalyzer.analyze_performance_bottlenecks(specs_data), called by itself
AnalyzePerformance(specs) ==
    /\ analyzed' = [analyzer |-> "performance", input |-> specs]
    /\ findings' = PerformanceAnalyze(specs)
    /\ UNCHANGED <<engine_vars, norm_in, norm_out, parser_vars, search>>

(***************************************************************************)
(* The documents verify is given                                           *)
(***************************************************************************)
Entry(k, v) == [key |-> k, value |-> v]

\* an implementation route of routes.json
Route(method, path, middleware) == [method |-> method, path |-> path, middleware |-> middleware]

\* a route of the specification document
SpecRoute(name, method, path) == Entry(name, [method |-> method, path |-> path])

SpecDoc(services, communications, authRequired, timeout) ==
    [services |-> services, communications |-> communications,
     policies |-> [authRequired |-> authRequired, timeout |-> timeout]]

Comm(source, target, type) == [source |-> source, target |-> target, type |-> type]

Nodes == {"A", "B", "C"}
CommTypes == {"sync", "async"}
Comms == {Comm(a, b, t) : a \in Nodes, b \in Nodes, t \in CommTypes}
CommLists == SeqsUpTo(Comms, MaxComms)

\* service and route names
S == <<"S">>
T == <<"T">>
r == <<"r">>
q == <<"q">>
z == <<"z">>

\* paths
P_o == <<"/", "o">>
P_oSlash == <<"/", "o", "/">>
P_colon == <<"/", ":", "i">>
P_brace == <<"/", "{", "i", "}">>

\* middleware names
M_JWT == <<"J", "W", "T">>
M_log == <<"l", "o", "g">>
M_Check == <<"C", "h", "e", "c", "k">>

ImplRoutePool ==
    { Route(POST, P_oSlash, <<>>), Route(POST, P_oSlash, <<M_log, M_JWT>>),
      Route(POST, P_brace, <<M_log>>), Route(POST, P_brace, <<M_JWT>>),
      Route(GET, P_o, <<M_JWT>>) }

\* routes.json: up to one route in service S alone, more routes split over S and T
ImplDocsOf(routes) ==
    IF Len(routes) <= 1
    THEN {[services |-> <<Entry(S, [routes |-> routes])>>]}
    ELSE {[services |-> <<Entry(S, [routes |-> SubSeq(routes, 1, 1)]),
                          Entry(T, [routes |-> SubSeq(routes, 2, Len(routes))])>>]}

ImplDocs == UNION {ImplDocsOf(routes) : routes \in SeqsUpTo(ImplRoutePool, MaxImplRoutes)}

SpecRoutePool == {SpecRoute(n, POST, p) : n \in {r, q}, p \in {P_o, P_colon}}

\* the services of a specification: S alone with up to two routes of different
\* names, or S with one route and T with a route named r
SpecServices ==
    {<<Entry(S, [routes |-> rs])>> :
        rs \in {x \in SeqsUpTo(SpecRoutePool, 2) : Len(x) = 2 => x[1].key # x[2].key}}
    \cup {<<Entry(S, [routes |-> <<rs>>]), Entry(T, [routes |-> <<rt>>])>> :
            rs \in SpecRoutePool, rt \in {x \in SpecRoutePool : x.key = r}}

\* policies.authRequired: declared names in every order, and the undeclared name z
AuthLists ==
    SeqsUpTo({r, q}, MaxAuthRequired)
    \cup {x \in {<<z>>, <<z, r>>, <<r, z>>} : Len(x) <= MaxAuthRequired}

TwoCycle == <<Comm("A", "B", "sync"), Comm("B", "A", "sync")>>
Timeouts == <<"5s">>

\* specifications with rich policies and few communication graphs
PolicySpecDocs ==
    {SpecDoc(sv, <<>>, ar, Timeouts) : sv \in SpecServices, ar \in AuthLists}
    \cup {SpecDoc(sv, TwoCycle, <<r>>, Timeouts) : sv \in SpecServices}

\* specifications with rich communication graphs and few policies
GraphPolicies ==
    { [services |-> <<Entry(S, [routes |-> <<SpecRoute(r, POST, P_o)>>])>>,
       authRequired |-> <<r>>, timeout |-> <<>>,
       impl |-> [services |-> <<Entry(S, [routes |-> <<Route(POST, P_oSlash, <<>>)>>])>>]],
      [services |-> <<Entry(S, [routes |-> <<SpecRoute(r, POST, P_colon)>>])>>,
       authRequired |-> <<r>>, timeout |-> Timeouts,
       impl |-> [services |-> <<Entry(S, [routes |-> <<Route(POST, P_brace, <<M_JWT>>)>>])>>]] }

(***************************************************************************)
(* RouteParser.parse_files (tools/parser/routes_parser.py)                 *)
(*                                                                         *)
(* A source file is a record: its path (folder, stem, suffix), whether     *)
(* open() and read() succeed, whether ast.parse accepts the text, what     *)
(* _detect_python_framework and the textual searches find in it, and the   *)
(* routes and the port each extractor reads from it.  An extracted route   *)
(* is a record [name, method, path, middleware, handler].                  *)
(***************************************************************************)
UpperOf == [c \in Range(LowerChars) |->
               UpperChars[CHOOSE i \in DOMAIN LowerChars : LowerChars[i] = c]]
UpperChar(c) == IF c \in DOMAIN UpperOf THEN UpperOf[c] ELSE c

\* str.capitalize(): first character upper-cased, the others lower-cased
Capitalize(word) ==
    IF word = <<>> THEN <<>> ELSE <<UpperChar(word[1])>> \o Lower(Tail(word))

\* str.split('-'): the pieces between the hyphens, empty pieces included
RECURSIVE SplitHyphenFrom(_, _, _)
SplitHyphenFrom(str, cur, acc) ==
    IF str = <<>> THEN Append(acc, cur)
    ELSE IF Head(str) = "-"
         THEN SplitHyphenFrom(Tail(str), <<>>, Append(acc, cur))
         ELSE SplitHyphenFrom(Tail(str), Append(cur, Head(str)), acc)

ServiceSuffix == <<"S", "e", "r", "v", "i", "c", "e">>
RoutesName == <<"R", "o", "u", "t", "e", "s">>

\* "".join(word.capitalize() for word in file.stem.split('-')) or "Routes"
BaseName(stem) ==
    LET words == SplitHyphenFrom(stem, <<>>, <<>>)
        joined == Concat([i \in DOMAIN words |-> Capitalize(words[i])])
    IN  IF joined = <<>> THEN RoutesName ELSE joined

\* str(i) for a natural number
DigitChars == <<"0", "1", "2", "3", "4", "5", "6", "7", "8", "9">>
RECURSIVE Str(_)
Str(i) == IF i < 10 THEN <<DigitChars[i + 1]>> ELSE Str(i \div 10) \o <<DigitChars[(i % 10) + 1]>>

\* a plausible slip: the name is not made unique
NameNotMadeUnique(base_name, service_name, i, services) == service_name

\* while service_name in final_spec["services"]: i += 1; service_name = ...
RECURSIVE UniqueName(_, _, _, _)
UniqueName(base_name, service_name, i, services) ==
    IF HasKey(services, service_name)
    THEN UniqueName(base_name, base_name \o ServiceSuffix \o Str(i + 1), i + 1, services)
    ELSE service_name

\* key = (r.get('method'), r.get('path'), r.get('handler'))
RouteKey(route) == <<route.method, route.path, route.handler>>

\* a plausible slip: the handler is left out of the key
RECURSIVE UniqueByMethodAndPath(_, _, _)
UniqueByMethodAndPath(routes, seen, unique_routes) ==
    IF routes = <<>> THEN unique_routes
    ELSE IF <<Head(routes).method, Head(routes).path>> \notin seen
         THEN UniqueByMethodAndPath(Tail(routes),
                                    seen \cup {<<Head(routes).method, Head(routes).path>>},
                                    Append(unique_routes, Head(routes)))
         ELSE UniqueByMethodAndPath(Tail(routes), seen, unique_routes)

\* for r in routes: if key not in seen: unique_routes.append(r); seen.add(key)
RECURSIVE UniqueRoutes(_, _, _)
UniqueRoutes(routes, seen, unique_routes) ==
    IF routes = <<>> THEN unique_routes
    ELSE IF RouteKey(Head(routes)) \notin seen
         THEN UniqueRoutes(Tail(routes), seen \cup {RouteKey(Head(routes))},
                           Append(unique_routes, Head(routes)))
         ELSE UniqueRoutes(Tail(routes), seen, unique_routes)

\* re.sub(r'[\W_]+', '_', path).strip('_')
IsNameChar(c) == IsWordChar(c) /\ c # "_"
RECURSIVE CollapseFrom(_, _, _)
CollapseFrom(path, i, acc) ==
    IF i > Len(path) THEN acc
    ELSE IF IsNameChar(path[i]) THEN CollapseFrom(path, i + 1, Append(acc, path[i]))
    ELSE IF acc # <<>> /\ acc[Len(acc)] = "_" /\ (i = 1 \/ ~IsNameChar(path[i - 1]))
         THEN CollapseFrom(path, i + 1, acc)
         ELSE CollapseFrom(path, i + 1, Append(acc, "_"))

StripUnderscores(str) ==
    LET from == IF str # <<>> /\ str[1] = "_" THEN 2 ELSE 1
        to == IF Len(str) >= from /\ str[Len(str)] = "_" THEN Len(str) - 1 ELSE Len(str)
    IN  SubSeq(str, from, to)

_generate_route_name(method, path) ==
    LET clean_path == StripUnderscores(CollapseFrom(path, 1, <<>>))
    IN  Lower(method) \o <<"_">> \o (IF clean_path = <<>> THEN <<"r", "o", "o", "t">> ELSE clean_path)

\* the dict a parser appends for a route it found
ExtractedRoute(method, path, middleware, handler) ==
    [name |-> _generate_route_name(method, path), method |-> method, path |-> path,
     middleware |-> middleware, handler |-> handler]

\* what a parse method returns, and what it prints
Parsed(routes, port, out) == [routes |-> routes, port |-> port, printed |-> out]

\* ExpressParser.parse and GoParser.parse: any exception gives ([], None)
ExpressParse(file) ==
    IF file.readable
    THEN Parsed(file.extracted.express, file.ports.express, <<>>)
    ELSE Parsed(<<>>, None, <<Msg("Error parsing Express file", file.path)>>)

GoParse(file) ==
    IF file.readable
    THEN Parsed(file.extracted.go, file.ports.go, <<>>)
    ELSE Parsed(<<>>, None, <<Msg("Error parsing Go file", file.path)>>)

\* FlaskParser.parse and FastAPIParser.parse: open, ast.parse, visit
FlaskParse(file) ==
    IF file.readable /\ file.parses
    THEN Parsed(file.extracted.flask, file.ports.flask, <<>>)
    ELSE Parsed(<<>>, None, <<Msg("Error parsing Flask file", file.path)>>)

FastAPIParse(file) ==
    IF file.readable /\ file.parses
    THEN Parsed(file.extracted.fastapi, file.ports.fastapi, <<>>)
    ELSE Parsed(<<>>, None, <<Msg("Error parsing FastAPI file", file.path)>>)

\* routes, port and framework of one file, and what was printed
Extracted(parsed, framework) ==
    [routes |-> parsed.routes, port |-> parsed.port, framework |-> framework,
     printed |-> parsed.printed]

\* the except of parse_files: the values set before the try stay
ProcessingFailed(file) ==
    Extracted(Parsed(<<>>, None, <<Msg("Error processing", file.path)>>), "Unknown")

\* a plausible slip: the FastAPI routes are put first
ExtractPythonFastAPIFirst(file) ==
    LET framework == IF file.parses THEN file.detected
                     ELSE IF file.mentions_flask THEN "Flask"
                     ELSE IF file.mentions_fastapi THEN "FastAPI"
                     ELSE "Unknown"
        f == FlaskParse(file)
        fa == FastAPIParse(file)
    IN  IF framework = "Flask" THEN Extracted(f, "Flask")
        ELSE IF framework = "FastAPI" THEN Extracted(fa, "FastAPI")
        ELSE IF f.routes # <<>> /\ fa.routes = <<>>
             THEN Extracted(Parsed(f.routes, f.port, f.printed \o fa.printed), "Flask")
        ELSE IF fa.routes # <<>> /\ f.routes = <<>>
             THEN Extracted(Parsed(fa.routes, fa.port, f.printed \o fa.printed), "FastAPI")
        ELSE Extracted(Parsed(fa.routes \o f.routes,
                              IF f.port # None THEN f.port ELSE fa.port,
                              f.printed \o fa.printed),
                       IF f.routes \o fa.routes # <<>> THEN "Mixed" ELSE "Unknown")

\* the .py branch
ExtractPython(file) ==
    LET framework == IF file.parses THEN file.detected
                     ELSE IF file.mentions_flask THEN "Flask"
                     ELSE IF file.mentions_fastapi THEN "FastAPI"
                     ELSE "Unknown"
        f == FlaskParse(file)
        fa == FastAPIParse(file)
    IN  IF framework = "Flask" THEN Extracted(f, "Flask")
        ELSE IF framework = "FastAPI" THEN Extracted(fa, "FastAPI")
        ELSE IF f.routes # <<>> /\ fa.routes = <<>>
             THEN Extracted(Parsed(f.routes, f.port, f.printed \o fa.printed), "Flask")
        ELSE IF fa.routes # <<>> /\ f.routes = <<>>
             THEN Extracted(Parsed(fa.routes, fa.port, f.printed \o fa.printed), "FastAPI")
        ELSE Extracted(Parsed(f.routes \o fa.routes,
                              IF f.port # None THEN f.port ELSE fa.port,
                              f.printed \o fa.printed),
                       IF f.routes \o fa.routes # <<>> THEN "Mixed" ELSE "Unknown")

\* the try of parse_files for one file
Extract(file) ==
    IF file.path.suffix = ".js" THEN Extracted(ExpressParse(file), "Express.js")
    ELSE IF file.path.suffix = ".py"
         THEN (IF file.readable THEN ExtractPython(file) ELSE ProcessingFailed(file))
    ELSE IF file.path.suffix \in {".go", ".golang"} THEN Extracted(GoParse(file), "Go")
    ELSE IF ~file.readable THEN ProcessingFailed(file)
    ELSE IF file.mentions_express THEN Extracted(ExpressParse(file), "Express.js")
    ELSE Extracted(Parsed(<<>>, None, <<>>), "Unknown")

\* one pass of the loop over file_paths
AddService(st, file) ==
    LET x == Extract(file)
        base_name == BaseName(file.path.stem)
        service_name == UniqueName(base_name, base_name \o ServiceSuffix, 1, st.services)
    IN  [services |-> DictSet(st.services, service_name,
                              [port |-> x.port, file_path |-> file.path,
                               framework |-> x.framework,
                               routes |-> UniqueRoutes(x.routes, {}, <<>>)]),
         services_count |-> st.services_count + 1,
         printed |-> st.printed \o x.printed]

RECURSIVE ParseLoop(_, _)
ParseLoop(paths, st) ==
    IF paths = <<>> THEN st ELSE ParseLoop(Tail(paths), AddService(st, Head(paths)))

RECURSIVE TotalRoutes(_)
TotalRoutes(services) ==
    IF services = <<>> THEN 0 ELSE Len(Head(services).value.routes) + TotalRoutes(Tail(services))

parse_files(paths) ==
    LET st == ParseLoop(paths, [services |-> <<>>, services_count |-> 0, printed |-> <<>>])
    IN  [final_spec |-> [services |-> st.services,
                         metadata |-> [total_services |-> st.services_count,
                                       total_routes |-> TotalRoutes(st.services)]],
         printed |-> st.printed]

\* a call parse_files(file_paths)
ParseFiles(paths) ==
    /\ file_paths' = paths
    /\ final_spec' = parse_files(paths).final_spec
    /\ printed' = parse_files(paths).printed
    /\ UNCHANGED <<engine_vars, norm_in, norm_out, analyzed, findings, search>>

(***************************************************************************)
(* Specifications                                                          *)
(***************************************************************************)
\* main(): one engine, one verify call; the policies vary
VerifyPolicies ==
    /\ pc = "constructed"
    /\ \E spec_doc \in PolicySpecDocs, routes_doc \in ImplDocs : Verify(spec_doc, routes_doc)

Next == VerifyPolicies

Spec == Init /\ [][Next]_vars

\* main(): one engine, one verify call; the communications vary
VerifyGraphs ==
    /\ pc = "constructed"
    /\ \E g \in GraphPolicies, cm \in CommLists :
           Verify(SpecDoc(g.services, cm, g.authRequired, g.timeout), g.impl)

NextGraph == VerifyGraphs

SpecGraph == Init /\ [][NextGraph]_vars

\* _normalize_path on every path of up to MaxPathLen characters
PathChars == {"/", ":", "a", "{", "}"}
Paths == SeqsUpTo(PathChars, MaxPathLen)

NextNormalize == norm_in = <<>> /\ norm_out = <<>> /\ \E path \in Paths : NormalizePath(path)

SpecNormalize == Init /\ [][NextNormalize]_vars

\* a caller that keeps one engine and calls verify on it up to MaxCalls times,
\* as long as no call raised
ReuseSpecDocs ==
    {SpecDoc(<<Entry(S, [routes |-> <<SpecRoute(r, POST, P_o), SpecRoute(q, POST, P_colon)>>])>>,
             cm, ar, Timeouts) :
        cm \in {<<>>, TwoCycle}, ar \in SeqsUpTo({r, q}, 1)}

ReuseImplDocs ==
    {[services |-> <<Entry(S, [routes |-> routes])>>] :
        routes \in { <<Route(POST, P_oSlash, <<M_log, M_JWT>>), Route(POST, P_brace, <<M_JWT>>)>>,
                     <<Route(POST, P_oSlash, <<>>), Route(POST, P_brace, <<M_JWT>>)>>,
                     <<Route(POST, P_oSlash, <<M_log, M_JWT>>)>>,
                     <<Route(POST, P_brace, <<M_log>>)>> }}

VerifyAgain ==
    /\ pc \in {"constructed", "returned"}
    /\ calls < MaxCalls
    /\ \E spec_doc \in ReuseSpecDocs, routes_doc \in ReuseImplDocs : Verify(spec_doc, routes_doc)

NextReuse == VerifyAgain

SpecReuse == Init /\ [][NextReuse]_vars

\* main(): one engine, one verify call on one specification with the routes r and
\* q; the authRequired list, the communications and the timeout policies vary
ListSpecDocs ==
    {SpecDoc(<<Entry(S, [routes |-> <<SpecRoute(r, POST, P_o), SpecRoute(q, POST, P_colon)>>])>>,
             cm, ar, tm) :
        cm \in {<<>>, TwoCycle}, ar \in AuthLists, tm \in {<<>>, Timeouts}}

VerifyLists ==
    /\ pc = "constructed"
    /\ \E spec_doc \in ListSpecDocs, routes_doc \in ReuseImplDocs : Verify(spec_doc, routes_doc)

NextLists == VerifyLists

SpecLists == Init /\ [][NextLists]_vars

\* main(): one engine, one verify call; the names of the services and of their
\* routes vary, underscores and the word service among them
ServiceNames == {<<"a">>, <<"a", "_", "b">>, <<"s", "e", "r", "v", "i", "c", "e">>}
RouteNames == {<<"c">>, <<"b", "_", "c">>, <<"a">>}

NamedServices ==
    {<<Entry(s1, [routes |-> <<SpecRoute(n1, POST, P_o)>>])>> :
        s1 \in ServiceNames, n1 \in RouteNames}
    \cup {<<Entry(e[1], [routes |-> <<SpecRoute(n1, POST, P_o)>>]),
             Entry(e[2], [routes |-> <<SpecRoute(n2, POST, P_colon)>>])>> :
            e \in {x \in ServiceNames \X ServiceNames : x[1] # x[2]},
            n1 \in RouteNames, n2 \in RouteNames}

VerifyNames ==
    /\ pc = "constructed"
    /\ \E sv \in NamedServices, ar \in SeqsUpTo(RouteNames, 1), routes_doc \in ReuseImplDocs :
           Verify(SpecDoc(sv, <<>>, ar, Timeouts), routes_doc)

NextNames == VerifyNames

SpecNames == Init /\ [][NextNames]_vars

\* the ways of writing a path: each ':name' token as it is or as '{name}'
RECURSIVE RewritingsFrom(_, _)
RewritingsFrom(path, i) ==
    IF i > Len(path) THEN {<<>>}
    ELSE IF path[i] = ":" /\ WordEnd(path, i + 1) > i + 1
         THEN LET e == WordEnd(path, i + 1)
                  name == SubSeq(path, i + 1, e - 1)
              IN  {<<":">> \o name \o rest : rest \in RewritingsFrom(path, e)}
                  \cup {<<"{">> \o name \o <<"}">> \o rest : rest \in RewritingsFrom(path, e)}
         ELSE {<<path[i]>> \o rest : rest \in RewritingsFrom(path, i + 1)}

Rewritings(path) == RewritingsFrom(path, 1)

\* a path without its last character
ButLast(path) == SubSeq(path, 1, Len(path) - 1)

\* main(): one engine, one verify call; the specification declares one
\* auth-required route POST path, routes.json one route with auth middleware whose
\* method is POST, post or GET and whose path is the same path written another
\* way, with a slash more or less, or another path
SpecPaths == Paths \ {<<>>}
ImplPathsFor(path) ==
    Rewritings(path) \cup {p \o <<"/">> : p \in Rewritings(path)}
                     \cup {ButLast(path), P_o, <<"/">>}
ImplMethods == {POST, Lower(POST), GET}

VerifyMatch ==
    /\ pc = "constructed"
    /\ \E path \in SpecPaths, method \in ImplMethods :
           \E impl_path \in ImplPathsFor(path) :
               Verify(SpecDoc(<<Entry(S, [routes |-> <<SpecRoute(r, POST, path)>>])>>,
                              <<>>, <<r>>, Timeouts),
                      [services |-> <<Entry(S, [routes |-> <<Route(method, impl_path, <<M_JWT>>)>>])>>])

NextMatch == VerifyMatch

SpecMatch == Init /\ [][NextMatch]_vars

\* main(): one engine, one verify call; what is at the two paths varies
LoadSpecFiles ==
    {File("object", d) :
        d \in ReuseSpecDocs
              \cup {SpecDoc(g.services, cm, g.authRequired, g.timeout) :
                        g \in GraphPolicies, cm \in SeqsUpTo(Comms, 1)}}
    \cup {File(k, NoDoc) : k \in FileKinds \ {"object"}}

LoadRoutesFiles ==
    {File("object", d) : d \in ReuseImplDocs}
    \cup {File(k, NoDoc) : k \in FileKinds \ {"object"}}

VerifyPaths ==
    /\ pc = "constructed"
    /\ \E specs_file \in LoadSpecFiles, routes_file \in LoadRoutesFiles :
           VerifyFiles(specs_file, routes_file)

NextLoad == VerifyPaths

SpecLoad == Init /\ [][NextLoad]_vars

\* the security analyzer on lists of implementation routes: one route of any
\* method, path and middleware, with up to MaxMoreRoutes routes before or after it
SecurityRoutePool ==
    {Route(method, path, middleware) :
        method \in {POST, PUT, DELETE, GET},
        path \in {P_o, P_colon, P_brace},
        middleware \in {<<>>, <<M_JWT>>, <<M_Check>>, <<M_log>>, <<M_JWT, M_Check>>}}

MoreRoutes ==
    SeqsUpTo({Route(DELETE, P_colon, <<>>), Route(GET, P_o, <<>>), Route(PUT, P_brace, <<M_Check>>)},
             MaxMoreRoutes)

SecurityRouteLists ==
    {<<>>} \cup {<<a>> \o rest : a \in SecurityRoutePool, rest \in MoreRoutes}
           \cup {rest \o <<a>> : a \in SecurityRoutePool, rest \in MoreRoutes}

NextSecurity == analyzed = <<>> /\ \E routes \in SecurityRouteLists : AnalyzeSecurity(routes)

SpecSecurity == Init /\ [][NextSecurity]_vars

\* the performance analyzer on specifications over four services: every sync
\* edge between two of them, one async edge, with and without timeout policies
ChainNodes == {"A", "B", "C", "D"}
ChainComms ==
    {Comm(e[1], e[2], "sync") : e \in {x \in ChainNodes \X ChainNodes : x[1] # x[2]}}
    \cup {Comm("C", "D", "async")}
ChainCommLists == SeqsUpTo(ChainComms, MaxComms)

NextPerformance ==
    /\ analyzed = <<>>
    /\ \E cm \in ChainCommLists, timeout \in {<<>>, Timeouts} :
           AnalyzePerformance(SpecDoc(<<>>, cm, <<>>, timeout))

SpecPerformance == Init /\ [][NextPerformance]_vars

\* the source files parse_files is tried on
NoRoutes == [express |-> <<>>, flask |-> <<>>, fastapi |-> <<>>, go |-> <<>>]
NoPorts == [express |-> None, flask |-> None, fastapi |-> None, go |-> None]

SourceFile(folder, stem, suffix, content) ==
    [path |-> [folder |-> folder, stem |-> stem, suffix |-> suffix],
     readable |-> content.readable, parses |-> content.parses, detected |-> content.detected,
     mentions_flask |-> content.mentions_flask, mentions_fastapi |-> content.mentions_fastapi,
     mentions_express |-> content.mentions_express,
     extracted |-> content.extracted, ports |-> content.ports]

\* a file open() or read() fails on
Unreadable ==
    [readable |-> FALSE, parses |-> FALSE, detected |-> "Unknown", mentions_flask |-> FALSE,
     mentions_fastapi |-> FALSE, mentions_express |-> FALSE,
     extracted |-> NoRoutes, ports |-> NoPorts]

\* a readable file with nothing in it that any extractor recognizes
Plain == [Unreadable EXCEPT !.readable = TRUE, !.parses = TRUE]

h1 == <<"h", "1">>
h2 == <<"h", "2">>
UserApi == <<"u", "s", "e", "r", "-", "a", "p", "i">>
Userapi == <<"U", "s", "e", "r", "a", "p", "i">>

R_get == ExtractedRoute(GET, P_o, <<>>, h1)
R_getJWT == ExtractedRoute(GET, P_o, <<M_JWT>>, h1)
R_getOther == ExtractedRoute(GET, P_o, <<>>, h2)
R_post == ExtractedRoute(POST, P_colon, <<M_log>>, h1)

\* an Express application: require('express'), app.get(...), app.listen(3000)
ExpressApp ==
    [Plain EXCEPT !.mentions_express = TRUE,
                  !.extracted.express = <<R_get, R_post, R_getJWT, R_getOther, R_get>>,
                  !.ports.express = Some(3000)]

\* a router module that is handed its router: router.post(...) and nothing else
RouterModule == [Plain EXCEPT !.extracted.express = <<R_post>>]

SourceFiles ==
    { SourceFile("x", UserApi, ".js", ExpressApp),
      SourceFile("x", UserApi, ".ts", ExpressApp),
      SourceFile("x", <<"t">>, ".js", RouterModule),
      SourceFile("x", <<"t">>, ".ts", RouterModule),
      SourceFile("z", <<"m">>, ".py",
          [Plain EXCEPT !.extracted.flask = <<R_get, R_getJWT>>, !.ports.flask = Some(5000)]),
      SourceFile("w", <<"m">>, ".py", Plain),
      SourceFile("v", <<"m">>, ".py", [Plain EXCEPT !.parses = FALSE]),
      SourceFile("y", UserApi, ".js", Unreadable),
      SourceFile("x", Userapi, ".py",
          [Plain EXCEPT !.detected = "Flask", !.mentions_flask = TRUE,
                        !.extracted.flask = <<R_post, R_post>>]),
      SourceFile("y", Userapi, ".py",
          [Plain EXCEPT !.parses = FALSE, !.mentions_flask = TRUE]),
      SourceFile("z", Userapi, ".py", Unreadable),
      SourceFile("x", <<"m">>, ".py",
          [Plain EXCEPT !.extracted.flask = <<R_get, R_post>>,
                        !.extracted.fastapi = <<R_post, R_getOther>>,
                        !.ports.fastapi = Some(8000)]),
      SourceFile("y", <<"m">>, ".py",
          [Plain EXCEPT !.extracted.fastapi = <<R_getOther>>]),
      SourceFile("x", <<"g">>, ".go",
          [Plain EXCEPT !.extracted.go = <<R_get, R_get>>, !.ports.go = Some(8080)]),
      SourceFile("y", <<"g">>, ".go", Unreadable),
      SourceFile("x", <<"-">>, ".txt",
          [Plain EXCEPT !.mentions_express = TRUE, !.extracted.express = <<R_getOther>>]),
      SourceFile("y", <<"-">>, ".txt", Unreadable),
      SourceFile("z", <<"-">>, ".txt", Plain) }

\* main() of routes_parser.py: one parse_files call on the files of the command line
NextParse == final_spec = <<>> /\ \E paths \in SeqsUpTo(SourceFiles, MaxFiles) : ParseFiles(paths)

SpecParse == Init /\ [][NextParse]_vars

(***************************************************************************)
(* Graphs, as the claims speak of them                                     *)
(***************************************************************************)
\* the directed edges the communications of the given types declare
EdgesOf(specs, types) ==
    {<<specs.communications[i].source, specs.communications[i].target>> :
        i \in {j \in DOMAIN specs.communications : specs.communications[j].type \in types}}

SyncEdges(specs) == EdgesOf(specs, {"sync"})
AllEdges(specs) == EdgesOf(specs, CommTypes)

\* the pairs <<a, b>> with a walk of one or more edges from a to b
RECURSIVE Closure(_, _)
Closure(edges, reach) ==
    LET step == reach \cup {<<x[1][1], x[2][2]>> :
                                x \in {y \in reach \X edges : y[1][2] = y[2][1]}}
    IN  IF step = reach THEN reach ELSE Closure(edges, step)

Reach(edges) == Closure(edges, edges)

\* a directed cycle, a self-loop included
HasCycle(edges) == \E e \in Reach(edges) : e[1] = e[2]

\* the edges form one simple cycle: every node on them has one edge out and one
\* edge in, and every node reaches every other
IsOneSimpleCycle(edges) ==
    LET nodes == {e[1] : e \in edges} \cup {e[2] : e \in edges}
    IN  /\ edges # {}
        /\ \A n \in nodes : /\ Cardinality({e \in edges : e[1] = n}) = 1
                            /\ Cardinality({e \in edges : e[2] = n}) = 1
        /\ \A a \in nodes, b \in nodes : <<a, b>> \in Reach(edges)

\* the cycle messages of the result
CycleMessages == SelectSeq(result.errors, LAMBDA e : e.kind = CycleError)

(***************************************************************************)
(* C1.  Cycle gate: when the synchronous-communication graph has a         *)
(* directed cycle (a self-loop included), verify returns satisfiable =     *)
(* false, and that run allocates no symbolic term, registers no tracked    *)
(* assumption and never calls the solver's check.                          *)
(***************************************************************************)
C1_CycleGate ==
    (pc = "returned" /\ HasCycle(SyncEdges(specs_data)))
        => /\ result.is_sat = FALSE
           /\ run.allocated = <<>>
           /\ run.registered = <<>>
           /\ run.checks = 0
           /\ solver = <<>> /\ route_vars = <<>> /\ service_vars = <<>>

\* a cyclic specification whose policy the implementation violates was verified
C1_Witness ==
    /\ pc = "returned"
    /\ HasCycle(SyncEdges(specs_data))
    /\ specs_data.policies.authRequired # <<>>
    /\ \E i \in DOMAIN routes_data.routes : routes_data.routes[i].middleware = <<>>
    /\ result.is_sat = FALSE

(***************************************************************************)
(* C2.  When verify finds cycles, the heuristic analyzers still run: the   *)
(* result carries the warnings of the security and performance analyzers   *)
(* and the suggestions of the consistency check for the inputs.            *)
(***************************************************************************)
C2_AnalyzersRunOnCycle ==
    (pc = "returned" /\ CycleMessages # <<>>)
        => /\ result.warnings = SecurityAnalyze(routes_data.routes)
                                    \o PerformanceAnalyze(specs_data)
           /\ result.suggestions =
                  _check_spec_implementation_consistency(specs_data, routes_data.routes)

(***************************************************************************)
(* C9.  The cycle gate considers sync edges only: a specification whose    *)
(* sync edges form no directed cycle is not rejected as cyclic.            *)
(***************************************************************************)
C9_OnlySyncEdgesGate ==
    (pc = "returned" /\ ~HasCycle(SyncEdges(specs_data))) => CycleMessages = <<>>

(***************************************************************************)
(* C10.  Cycle errors are deduplicated by membership: no two cycle         *)
(* messages of a result describe cycles with the same set of nodes, and a  *)
(* graph that is one simple cycle yields exactly one message.              *)
(***************************************************************************)
C10_CyclesDeduplicated ==
    pc = "returned"
        => /\ \A i \in DOMAIN CycleMessages, j \in DOMAIN CycleMessages :
                 i # j => Range(CycleMessages[i].subject) # Range(CycleMessages[j].subject)
           /\ (/\ IsOneSimpleCycle(AllEdges(specs_data))
               /\ AllEdges(specs_data) = SyncEdges(specs_data))
                  => /\ Len(CycleMessages) = 1
                     /\ Range(CycleMessages[1].subject) =
                            {e[1] : e \in AllEdges(specs_data)}

\* the search met the same cycle twice and reported it once
C10_Witness ==
    /\ pc = "returned"
    /\ Len(CycleMessages) >= 1
    /\ Len(RawCycles(_build_dependency_graph(specs_data))) > Len(CycleMessages)

(***************************************************************************)
(* Policies, as the claims speak of them                                   *)
(***************************************************************************)
AuthRequired == specs_data.policies.authRequired
ImplRoutes == routes_data.routes

\* the spec route at place <<i, j>>, its service, its method and its path
RouteAt(place) == specs_data.services[place[1]].value.routes[place[2]]
ServiceAt(place) == specs_data.services[place[1]].key
MethodAt(place) == Split(RouteAt(place).value)[1]
PathAt(place) == Split(RouteAt(place).value)[2]

Places(name) == SpecPlaces(specs_data, name)
Declared(name) == Places(name) # {}
\* where the first service declaring the name declares it
PlaceOf(name) == FirstPlace(Places(name))

\* a middleware name contains an auth keyword, whatever its case
HasAuthKeyword(route) ==
    \E m \in DOMAIN route.middleware : \E k \in DOMAIN auth_keywords :
        \E i \in 1..Len(route.middleware[m]) :
            /\ i + Len(auth_keywords[k]) - 1 <= Len(route.middleware[m])
            /\ \A d \in 1..Len(auth_keywords[k]) :
                   LowerChar(route.middleware[m][i + d - 1]) = auth_keywords[k][d]

\* the implementation routes with the method and the normalized path of a spec route
Matching(place) ==
    {i \in DOMAIN ImplRoutes :
        /\ ImplRoutes[i].method = MethodAt(place)
        /\ _normalize_path(ImplRoutes[i].path) = _normalize_path(PathAt(place))}

Least(set) == CHOOSE i \in set : \A j \in set : i <= j

\* The requirement of a route name, read with the first service declaring it and
\* the first matching implementation route in flattened document order:
AuthLacking(name) ==
    /\ Declared(name)
    /\ Matching(PlaceOf(name)) # {}
    /\ ~HasAuthKeyword(ImplRoutes[Least(Matching(PlaceOf(name)))])
Unmatched(name) == Declared(name) /\ Matching(PlaceOf(name)) = {}
Met(name) ==
    /\ Declared(name)
    /\ Matching(PlaceOf(name)) # {}
    /\ HasAuthKeyword(ImplRoutes[Least(Matching(PlaceOf(name)))])

\* read with any service declaring it and any matching implementation route:
SomeMatchHasAuth(name) ==
    \E place \in Places(name) : \E i \in Matching(place) : HasAuthKeyword(ImplRoutes[i])
SomeMatchLacksAuth(name) ==
    \E place \in Places(name) : \E i \in Matching(place) : ~HasAuthKeyword(ImplRoutes[i])

\* the term name the diagnostics give a route name
TermOf(name) == TermName(ServiceAt(PlaceOf(name)), name)

Acyclic == ~HasCycle(AllEdges(specs_data))

(***************************************************************************)
(* C4, as claimed.  If the communication graph has no cycle and every      *)
(* route name in policies.authRequired has some implementation route with  *)
(* the same method and normalized path whose middleware contains an auth   *)
(* keyword, verify returns satisfiable = true with errors = [].           *)
(***************************************************************************)
C4_SomeMatchHasAuth ==
    (/\ pc = "returned"
     /\ Acyclic
     /\ \A i \in DOMAIN AuthRequired : SomeMatchHasAuth(AuthRequired[i]))
        => (result.is_sat /\ result.errors = <<>>)

(***************************************************************************)
(* C4, amended.  In the first verify call on an engine: if the             *)
(* communication graph has no cycle and, for every route name in           *)
(* policies.authRequired, the first implementation route (in flattened     *)
(* document order) with the method and normalized path that the first      *)
(* service declaring the name gives it has middleware containing an auth   *)
(* keyword, verify returns satisfiable = true with errors = [].           *)
(***************************************************************************)
C4_FirstMatchHasAuth ==
    (/\ calls = 1
     /\ Acyclic
     /\ \A i \in DOMAIN AuthRequired : Met(AuthRequired[i]))
        => (pc = "returned" /\ result.is_sat /\ result.errors = <<>>)

\* two requirements were met, one of them by a route whose auth middleware is
\* written in capitals and that a route without auth follows
C4_Witness ==
    /\ pc = "returned"
    /\ Acyclic
    /\ Len(AuthRequired) = 2 /\ AuthRequired[1] # AuthRequired[2]
    /\ \A i \in DOMAIN AuthRequired : Met(AuthRequired[i])
    /\ \E i \in DOMAIN AuthRequired : SomeMatchLacksAuth(AuthRequired[i])
    /\ result.is_sat

(***************************************************************************)
(* C5, as claimed.  If exactly one auth-required route has a matching      *)
(* implementation route whose middleware contains no auth keyword, and no  *)
(* other requirement fails, verify returns satisfiable = false and errors  *)
(* is exactly one MissingAuth diagnostic naming that route.               *)
(***************************************************************************)
C5_SomeMatchLacksAuth ==
    \A n \in Range(AuthRequired) :
        (/\ pc = "returned"
         /\ Acyclic
         /\ SomeMatchLacksAuth(n)
         /\ \A m \in Range(AuthRequired) \ {n} : SomeMatchHasAuth(m) /\ ~SomeMatchLacksAuth(m))
            => /\ result.is_sat = FALSE
               /\ result.errors = <<Msg(AuthMissingError, TermOf(n))>>

(***************************************************************************)
(* C5, amended.  In the first verify call on an engine: if the             *)
(* communication graph has no cycle, exactly one entry of                  *)
(* policies.authRequired names a route whose first matching implementation *)
(* route has no auth keyword in its middleware, and every other entry is   *)
(* met or names no declared route, verify returns satisfiable = false and  *)
(* errors is exactly one MissingAuth diagnostic naming that route (as      *)
(* service_route).                                                         *)
(***************************************************************************)
C5_FirstMatchLacksAuth ==
    \A i \in DOMAIN AuthRequired :
        (/\ calls = 1
         /\ Acyclic
         /\ AuthLacking(AuthRequired[i])
         /\ \A j \in DOMAIN AuthRequired \ {i} :
                Met(AuthRequired[j]) \/ ~Declared(AuthRequired[j]))
            => /\ pc = "returned"
               /\ result.is_sat = FALSE
               /\ result.errors = <<Msg(AuthMissingError, TermOf(AuthRequired[i]))>>

\* one of two requirements failed for want of auth middleware, the other was met
C5_Witness ==
    /\ pc = "returned"
    /\ Acyclic
    /\ Len(AuthRequired) = 2
    /\ AuthLacking(AuthRequired[2])
    /\ Met(AuthRequired[1])
    /\ result.is_sat = FALSE
    /\ Len(result.errors) = 1

(***************************************************************************)
(* C6.  If an auth-required route has no implementation route with the     *)
(* same method and normalized path, verify returns satisfiable = false     *)
(* with a MissingRoute diagnostic for it in errors, and the same result    *)
(* has a consistency suggestion naming that route.  (Stated for acyclic    *)
(* specifications and the route of the first service declaring the name.)  *)
(***************************************************************************)
C6_MissingRouteBothChannels ==
    \A i \in DOMAIN AuthRequired :
        (pc = "returned" /\ Acyclic /\ Unmatched(AuthRequired[i]))
            => /\ result.is_sat = FALSE
               /\ Msg(RouteMissingError, TermOf(AuthRequired[i])) \in Range(result.errors)
               /\ \E k \in DOMAIN result.suggestions :
                      /\ result.suggestions[k].kind = MissingImplementation
                      /\ result.suggestions[k].subject[1] = AuthRequired[i]
                      /\ result.suggestions[k].subject[4] = ServiceAt(PlaceOf(AuthRequired[i]))

(***************************************************************************)
(* C7.  After an unsatisfiable solve, errors holds one diagnostic for      *)
(* every auth-required route whose requirement failed (auth missing or     *)
(* route missing) and none for a requirement that was met, also when two   *)
(* or more requirements fail in the same run.                              *)
(***************************************************************************)
C7_ErrorsExplainEveryFailure ==
    (pc = "returned" /\ Acyclic /\ result.is_sat = FALSE)
        => /\ Range(result.errors) =
                  {Msg(AuthMissingError, TermOf(n)) : n \in {m \in Range(AuthRequired) : AuthLacking(m)}}
                  \cup {Msg(RouteMissingError, TermOf(n)) : n \in {m \in Range(AuthRequired) : Unmatched(m)}}
           /\ Len(result.errors) = Cardinality(Range(result.errors))

(***************************************************************************)
(* C3.  A tracked assumption does not outlive the verify call that created *)
(* it: in any sequence of verify calls on one engine, the assumptions the  *)
(* solver holds after a call that reached the solver are those the call    *)
(* registered, and a call whose inputs violate no policy returns           *)
(* satisfiable = true whatever the earlier calls returned.                 *)
(***************************************************************************)
C3_AssumptionsDoNotOutliveCall ==
    (pc = "returned" /\ Acyclic)
        => /\ Range(solver) = Range(run.registered)
           /\ (\A i \in DOMAIN AuthRequired : Met(AuthRequired[i])) => result.is_sat

(***************************************************************************)
(* C8.  Path normalization is idempotent: normalizing a normalized path    *)
(* gives the same path, also for paths that end in several slashes and     *)
(* paths with ':name' parameter tokens.                                    *)
(***************************************************************************)
C8_NormalizeIdempotent ==
    norm_out = _normalize_path(norm_in) => _normalize_path(norm_out) = norm_out

(***************************************************************************)
(* C11.  When the specification or the implementation document is missing  *)
(* or malformed (unreadable file, invalid JSON, or JSON of the wrong       *)
(* shape), verify does not raise: it returns satisfiable = false with      *)
(* exactly one explanatory error and empty warnings and suggestions.       *)
(***************************************************************************)
C11_LoadFailureIsReported ==
    (calls = 1 /\ \E i \in DOMAIN files : files[i] # "object")
        => /\ pc = "returned"
           /\ result.is_sat = FALSE
           /\ Len(result.errors) = 1
           /\ result.errors[1].kind = LoadError
           /\ result.warnings = <<>>
           /\ result.suggestions = <<>>

(***************************************************************************)
(* Consistency gaps, as the claims speak of them                           *)
(***************************************************************************)
\* every <<service index, route index>> of the specification
AllPlaces ==
    UNION {{i} \X DOMAIN specs_data.services[i].value.routes : i \in DOMAIN specs_data.services}

\* a spec route no implementation route matches and no policy entry names
IsGap(place) ==
    /\ Matching(place) = {}
    /\ RouteAt(place).key \notin Range(AuthRequired)

\* a sequence without its j-th element
Drop(seq, j) == SubSeq(seq, 1, j - 1) \o SubSeq(seq, j + 1, Len(seq))

\* the specification without the route at a place
SpecsWithout(place) ==
    [specs_data EXCEPT !.services[place[1]].value.routes = Drop(@, place[2])]

\* satisfiable, as a newly constructed engine computes it for the implementation
\* of this run
SatisfiableFor(specs) ==
    /\ find_cycles(specs) = <<>>
    /\ IsSat(_add_policy_constraints(
                 specs, ImplRoutes,
                 CreateVars(specs.services, [service_vars |-> <<>>, route_vars |-> <<>>]).route_vars,
                 <<>>).solver)

SuggestionsFor(place) ==
    SelectSeq(result.suggestions,
              LAMBDA m : /\ m.kind = MissingImplementation
                         /\ m.subject[1] = RouteAt(place).key
                         /\ m.subject[4] = ServiceAt(place))

(***************************************************************************)
(* C12.  A consistency gap never blocks satisfiability: a spec route that  *)
(* has no matching implementation route and is not listed in               *)
(* policies.authRequired adds one suggestion and nothing to errors, and    *)
(* the run's satisfiable value is the same as if that route were absent.   *)
(***************************************************************************)
C12_GapNeverBlocks ==
    \A place \in AllPlaces :
        (calls = 1 /\ pc = "returned" /\ IsGap(place))
            => /\ Len(SuggestionsFor(place)) = 1
               /\ \A e \in Range(result.errors) :
                      e.subject # TermName(ServiceAt(place), RouteAt(place).key)
               /\ result.is_sat = SatisfiableFor(SpecsWithout(place))

\* the same, for specifications whose communication graph has no cycle
C12_GapNeverBlocksAcyclic == Acyclic => C12_GapNeverBlocks

(***************************************************************************)
(* The security analyzer, as the claims speak of it                        *)
(***************************************************************************)
\* a middleware name contains one of the keywords, whatever its case
HasKeyword(route, keywords) ==
    \E m \in DOMAIN route.middleware : \E k \in DOMAIN keywords :
        \E i \in 1..Len(route.middleware[m]) :
            /\ i + Len(keywords[k]) - 1 <= Len(route.middleware[m])
            /\ \A d \in 1..Len(keywords[k]) :
                   LowerChar(route.middleware[m][i + d - 1]) = keywords[k][d]

IsMutating(route) == route.method = POST \/ route.method = PUT \/ route.method = DELETE
HasParameter(route) == \E i \in DOMAIN route.path : route.path[i] = ":" \/ route.path[i] = "{"

LacksAuth(route) == IsMutating(route) /\ ~HasKeyword(route, auth_keywords)
LacksValidation(route) == HasParameter(route) /\ ~HasKeyword(route, validation_keywords)

\* the number of warnings a route is to contribute
WarningsDue(route) ==
    (IF LacksAuth(route) THEN 1 ELSE 0) + (IF LacksValidation(route) THEN 1 ELSE 0)

RECURSIVE SumDue(_)
SumDue(routes) == IF routes = <<>> THEN 0 ELSE WarningsDue(Head(routes)) + SumDue(Tail(routes))

AuthWarning == "Security Warning: Missing authentication on sensitive route"
ValidationWarning == "Security Warning: Missing input validation on parameterized route"

(***************************************************************************)
(* C13.  Security analyzer: each implementation route contributes one      *)
(* warning if its method is POST, PUT or DELETE and no middleware name     *)
(* contains an auth keyword, plus one warning if its path contains a       *)
(* parameter token (':' or '{') and no middleware name contains a          *)
(* validation keyword; DELETE on a parameterized path with no middleware   *)
(* yields two warnings and GET on a plain path with no middleware none.    *)
(***************************************************************************)
C13_SecurityWarningsPerRoute ==
    (analyzed # <<>> /\ analyzed.analyzer = "security")
        => /\ Len(findings) = SumDue(analyzed.input)
           /\ \A i \in DOMAIN analyzed.input :
                  LET route == analyzed.input[i]
                      before == SumDue(SubSeq(analyzed.input, 1, i - 1))
                  IN  /\ LacksAuth(route) =>
                             findings[before + 1] = Msg(AuthWarning, <<route.method, route.path>>)
                      /\ LacksValidation(route) =>
                             findings[before + WarningsDue(route)] =
                                 Msg(ValidationWarning, <<route.path>>)

\* DELETE /:i with no middleware gave two warnings and GET /o with none gave none
C13_Witness ==
    /\ analyzed # <<>> /\ analyzed.analyzer = "security"
    /\ analyzed.input = <<Route(GET, P_o, <<>>), Route(DELETE, P_colon, <<>>)>>
    /\ Len(findings) = 2
    /\ findings[1].kind = AuthWarning
    /\ findings[2].kind = ValidationWarning

(***************************************************************************)
(* The performance analyzer, as the claims speak of it                     *)
(***************************************************************************)
ChainWarning == "Performance Warning: Long synchronous call chain detected"
TimeoutWarning == "Performance Warning: No global timeout policies defined"

\* the paths along the edges that visit no node twice
SimplePaths(edges, nodes) ==
    {p \in UNION {[1..k -> nodes] : k \in 2..Cardinality(nodes)} :
        /\ \A i \in 1..(Len(p) - 1) : <<p[i], p[i + 1]>> \in edges
        /\ \A i, j \in DOMAIN p : i # j => p[i] # p[j]}

\* those that end in a leaf: no edge leads from the last node to a node off the path
PathsToLeaf(edges, nodes) ==
    {p \in SimplePaths(edges, nodes) :
        \A n \in nodes : <<p[Len(p)], n>> \in edges => n \in Range(p)}

LongPathsToLeaf(edges, nodes) == {p \in PathsToLeaf(edges, nodes) : Len(p) > 3}

NodesOf(edges) == {e[1] : e \in edges} \cup {e[2] : e \in edges}

\* no sync edge is declared twice
NoRepeatedSyncEdge(specs) ==
    \A i, j \in DOMAIN specs.communications :
        (/\ i # j
         /\ specs.communications[i].type = "sync"
         /\ specs.communications[j].type = "sync")
            => <<specs.communications[i].source, specs.communications[i].target>>
               # <<specs.communications[j].source, specs.communications[j].target>>

ChainFindings == SelectSeq(findings, LAMBDA m : m.kind = ChainWarning)

(***************************************************************************)
(* C14.  Performance analyzer: over the synchronous-communication graph,   *)
(* one chain warning is emitted for each path from a node to a leaf that   *)
(* has more than 3 nodes and none for shorter paths (a path enumerated     *)
(* twice because an edge is declared twice is reported twice); the chain   *)
(* A -> B -> C -> D alone yields exactly one chain warning.                *)
(***************************************************************************)
C14_ChainWarnings ==
    (analyzed # <<>> /\ analyzed.analyzer = "performance")
        => LET edges == SyncEdges(analyzed.input)
               long == LongPathsToLeaf(edges, NodesOf(edges))
           IN  /\ {ChainFindings[i].subject : i \in DOMAIN ChainFindings} = long
               /\ NoRepeatedSyncEdge(analyzed.input) => Len(ChainFindings) = Cardinality(long)
               /\ edges = {<<"A", "B">>, <<"B", "C">>, <<"C", "D">>}
                  /\ NoRepeatedSyncEdge(analyzed.input)
                      => ChainFindings = <<Msg(ChainWarning, <<"A", "B", "C", "D">>)>>

\* the chain A -> B -> C -> D alone, declared backwards, gave one chain warning
C14_Witness ==
    /\ analyzed # <<>> /\ analyzed.analyzer = "performance"
    /\ analyzed.input.communications =
           <<Comm("C", "D", "sync"), Comm("B", "C", "sync"), Comm("A", "B", "sync")>>
    /\ Len(ChainFindings) = 1

TimeoutWarnings == SelectSeq(result.warnings, LAMBDA m : m.kind = TimeoutWarning)

(***************************************************************************)
(* C15.  If the specification's policies contain no timeout entries, the   *)
(* result of verify contains exactly one timeout warning, whatever the     *)
(* chain findings are; if timeout entries exist, it contains none.         *)
(***************************************************************************)
C15_OneTimeoutWarning ==
    (calls = 1 /\ pc = "returned")
        => Len(TimeoutWarnings) = (IF specs_data.policies.timeout = <<>> THEN 1 ELSE 0)

\* the same, for specifications whose communication graph has no cycle
C15_OneTimeoutWarningAcyclic == Acyclic => C15_OneTimeoutWarning

(***************************************************************************)
(* C16.  When verify returns satisfiable = true, model is the full         *)
(* term -> boolean assignment: it holds a boolean value for every service  *)
(* term and every (service, spec-route) term allocated for the run.        *)
(***************************************************************************)
C16_ModelAssignsEveryTerm ==
    (calls = 1 /\ pc = "returned" /\ result.is_sat)
        => /\ result.model # None
           /\ \A name \in Range(run.allocated) :
                  \E i \in DOMAIN result.model[1] :
                      /\ result.model[1][i].key = name
                      /\ result.model[1][i].value \in BOOLEAN

(***************************************************************************)
(* The route parser, as the claims speak of it                             *)
(***************************************************************************)
\* the service entry made for the i-th file
ServiceOf(i) == final_spec.services[i]

\* the routes extracted from the i-th file, before they are stored
ExtractedFrom(i) == Extract(file_paths[i]).routes

KeyOf(route) == <<route.method, route.path, route.handler>>

\* the places of the first occurrences of the keys
FirstOccurrences(routes) ==
    {i \in DOMAIN routes : \A j \in 1..(i - 1) : KeyOf(routes[j]) # KeyOf(routes[i])}

\* the k-th smallest element of a set of numbers
Nth(set, k) == CHOOSE i \in set : Cardinality({j \in set : j < i}) = k - 1

Parsed_ == final_spec # <<>>

(***************************************************************************)
(* C17.  Route dedup: for any list of routes extracted from a file, the    *)
(* routes stored for its service contain no two entries with the same      *)
(* (method, path, handler), every distinct key of the input is kept once,  *)
(* and the kept entries are the first occurrences in their original order. *)
(***************************************************************************)
C17_RoutesDeduplicated ==
    Parsed_ =>
        \A i \in DOMAIN file_paths :
            LET kept == ServiceOf(i).value.routes
                input == ExtractedFrom(i)
                first == FirstOccurrences(input)
            IN  /\ \A a, b \in DOMAIN kept : a # b => KeyOf(kept[a]) # KeyOf(kept[b])
                /\ {KeyOf(kept[a]) : a \in DOMAIN kept} = {KeyOf(input[a]) : a \in DOMAIN input}
                /\ Len(kept) = Cardinality(first)
                /\ \A k \in DOMAIN kept : kept[k] = input[Nth(first, k)]

\* a file gave five routes with three keys; the three first occurrences were kept
C17_Witness ==
    /\ Parsed_
    /\ \E i \in DOMAIN file_paths :
           /\ Len(ExtractedFrom(i)) = 5
           /\ ServiceOf(i).value.routes = <<R_get, R_post, R_getOther>>

\* the name the i-th file gets when no earlier file took it
FirstName(i) == BaseName(file_paths[i].path.stem) \o ServiceSuffix

\* the names a collision may be resolved to: the first name with 2, 3, ... appended
SuffixedNames(i) == {FirstName(i) \o Str(k) : k \in 2..Len(file_paths)}

(***************************************************************************)
(* C18.  parse_files creates exactly one service entry per input file and  *)
(* never merges two files: for any list of n files, files with the same    *)
(* base name included, the result holds n services with pairwise distinct  *)
(* names, a collision being resolved by an incrementing numeric suffix,    *)
(* and metadata.total_services = n.                                        *)
(***************************************************************************)
C18_OneServicePerFile ==
    Parsed_ =>
        LET services == final_spec.services
            n == Len(file_paths)
        IN  /\ Len(services) = n
            /\ final_spec.metadata.total_services = n
            /\ \A a, b \in DOMAIN services : a # b => services[a].key # services[b].key
            /\ \A i \in DOMAIN services :
                   /\ services[i].value.file_path = file_paths[i].path
                   /\ services[i].value.routes = UniqueRoutes(ExtractedFrom(i), {}, <<>>)
                   /\ LET earlier == {services[j].key : j \in 1..(i - 1)}
                      IN  IF FirstName(i) \notin earlier
                          THEN services[i].key = FirstName(i)
                          ELSE /\ services[i].key \in SuffixedNames(i)
                               /\ \A k \in 2..n :
                                      services[i].key = FirstName(i) \o Str(k) =>
                                          \A l \in 2..(k - 1) : FirstName(i) \o Str(l) \in earlier

\* two files of the same stem in different folders, with different routes: two services
C18_Witness ==
    /\ Parsed_
    /\ Len(file_paths) = 2
    /\ file_paths[1].path.stem = file_paths[2].path.stem
    /\ file_paths[1].path # file_paths[2].path
    /\ final_spec.services[1].key = BaseName(UserApi) \o ServiceSuffix
    /\ final_spec.services[2].key = BaseName(UserApi) \o ServiceSuffix \o <<"2">>
    /\ final_spec.services[1].value.routes # final_spec.services[2].value.routes
    /\ final_spec.metadata.total_services = 2

\* extraction of a file fails: it cannot be read, or it is Python that does not parse
ExtractionFails(file) == ~file.readable \/ (file.path.suffix = ".py" /\ ~file.parses)

(***************************************************************************)
(* C19.  A file whose extraction fails (unreadable or unparsable, of any   *)
(* supported extension) never aborts parse_files: the run continues with   *)
(* the remaining files and the failed file gets a service entry with       *)
(* framework = Unknown and an empty route list.                            *)
(***************************************************************************)
C19_FailedFileIsUnknown ==
    Parsed_ =>
        /\ Len(final_spec.services) = Len(file_paths)
        /\ \A i \in DOMAIN file_paths :
               ExtractionFails(file_paths[i]) =>
                   /\ i \in DOMAIN final_spec.services
                   /\ ServiceOf(i).value.framework = "Unknown"
                   /\ ServiceOf(i).value.routes = <<>>

\* the part of C19 the code keeps: every file, failed or not, gets its entry, a
\* failed one with no routes and no port, and the files after it are still parsed
C19_FailedFileDoesNotAbort ==
    Parsed_ =>
        /\ Len(final_spec.services) = Len(file_paths)
        /\ \A i \in DOMAIN file_paths :
               ExtractionFails(file_paths[i]) =>
                   /\ ServiceOf(i).value.routes = <<>>
                   /\ ServiceOf(i).value.port = None
                   /\ \E e \in Range(printed) : e.subject = file_paths[i].path

(***************************************************************************)
(* The output channels of a result, as the claims speak of them            *)
(***************************************************************************)
CoreDiagnostics == {AuthMissingError, RouteMissingError}
AdvisoryTexts == {AuthWarning, ValidationWarning, ChainWarning, TimeoutWarning, MissingImplementation}

\* errors holds only cycle messages, or only unsat-core diagnostics
ErrorsOfOneKind ==
    \/ \A e \in Range(result.errors) : e.kind = CycleError
    \/ \A e \in Range(result.errors) : e.kind \in CoreDiagnostics

NoAdvisoryInErrors == \A e \in Range(result.errors) : e.kind \notin AdvisoryTexts

WarningsAreAnalyzerOutputs ==
    result.warnings = SecurityAnalyze(routes_data.routes) \o PerformanceAnalyze(specs_data)

(***************************************************************************)
(* C20.  Output channels stay separate: in every result of verify, errors  *)
(* holds either only cycle messages or only unsat-core policy diagnostics, *)
(* never both; no warning or suggestion text appears in errors; and        *)
(* warnings is the security analyzer's output followed by the performance  *)
(* analyzer's output, each in its own order.                               *)
(***************************************************************************)
C20_ChannelsSeparate ==
    pc = "returned" =>
        /\ ErrorsOfOneKind
        /\ NoAdvisoryInErrors
        /\ WarningsAreAnalyzerOutputs

\* what the code keeps of C20: errors of one kind and free of advisory text in
\* every result, and the warnings of the two analyzers in every result without
\* cycle messages
C20_ChannelsSeparateAcyclic ==
    pc = "returned" =>
        /\ ErrorsOfOneKind
        /\ NoAdvisoryInErrors
        /\ CycleMessages = <<>> => WarningsAreAnalyzerOutputs

(***************************************************************************)
(* Two runs that differ in policies.authRequired only                      *)
(***************************************************************************)
\* a newly constructed engine
NewEngine == [solver |-> <<>>, route_vars |-> <<>>, service_vars |-> <<>>]

\* the specification document of this run, with another authRequired list
SpecDocWith(authRequired) ==
    SpecDoc([i \in DOMAIN specs_data.services |->
                Entry(specs_data.services[i].key,
                      [routes |-> [j \in DOMAIN specs_data.services[i].value.routes |->
                          SpecRoute(RouteAt(<<i, j>>).key, MethodAt(<<i, j>>), PathAt(<<i, j>>))]])],
            specs_data.communications, authRequired, specs_data.policies.timeout)

\* the results a newly constructed engine may return for the documents of this
\* run with another authRequired list
OtherResults(authRequired) ==
    {o.result : o \in {x \in verify(SpecDocWith(authRequired),
                                    [services |-> routes_data.services], NewEngine) :
                          x.pc = "returned"}}

(***************************************************************************)
(* C21.  The heuristic analyzers are independent of the solver outcome:    *)
(* for two runs with the same implementation routes, spec routes,          *)
(* communications and timeout policies that differ only in                 *)
(* policies.authRequired, one run satisfiable and the other not, warnings  *)
(* and suggestions are identical.                                          *)
(***************************************************************************)
C21_AnalyzersIndependentOfOutcome ==
    (calls = 1 /\ pc = "returned") =>
        \A authRequired \in AuthLists :
            \A other \in OtherResults(authRequired) :
                other.is_sat # result.is_sat =>
                    /\ other.warnings = result.warnings
                    /\ other.suggestions = result.suggestions

\* a satisfiable run with a warning and a suggestion, of which another
\* authRequired list makes an unsatisfiable run that names the suggested route
C21_Witness ==
    /\ calls = 1 /\ pc = "returned"
    /\ result.is_sat
    /\ result.warnings # <<>>
    /\ result.suggestions # <<>>
    /\ \E authRequired \in AuthLists :
           \E other \in OtherResults(authRequired) :
               /\ ~other.is_sat
               /\ \E i \in DOMAIN authRequired : \E k \in DOMAIN result.suggestions :
                      result.suggestions[k].subject[1] = authRequired[i]

(***************************************************************************)
(* C27.  Every reported cycle is a real cycle of the graph, given as the   *)
(* rotation of the search path starting at the repeated node: its nodes    *)
(* are pairwise distinct, each consecutive pair is an edge of the graph,   *)
(* and there is an edge from its last node back to its first.              *)
(***************************************************************************)
C27_ReportedCyclesAreReal ==
    pc = "returned" =>
        \A k \in DOMAIN CycleMessages :
            LET shown == CycleMessages[k].subject
                cycle == SubSeq(shown, 1, Len(shown) - 1)
            IN  /\ Len(shown) >= 2
                /\ shown[Len(shown)] = shown[1]
                /\ \A i, j \in DOMAIN cycle : i # j => cycle[i] # cycle[j]
                /\ \A i \in 1..(Len(cycle) - 1) : <<cycle[i], cycle[i + 1]>> \in AllEdges(specs_data)
                /\ <<cycle[Len(cycle)], cycle[1]>> \in AllEdges(specs_data)

\* a cycle of two nodes was reported that the search reached over a node outside it
C27_Witness ==
    /\ pc = "returned"
    /\ \E k \in DOMAIN CycleMessages :
           /\ Len(CycleMessages[k].subject) = 3
           /\ CycleMessages[k].subject[1] # DictKeys(_build_dependency_graph(specs_data))[1]
           /\ Len(specs_data.communications) = 3
           /\ Cardinality(AllEdges(specs_data)) = 3

(***************************************************************************)
(* Registered assumptions, as the claims speak of them                     *)
(***************************************************************************)
Registered == Range(run.registered)

\* the service that owns the i-th flattened implementation route
OwnerOf(i) ==
    LET sv == routes_data.services
        before(k) == Len(Concat([x \in 1..(k - 1) |-> sv[x].value.routes]))
    IN  sv[CHOOSE k \in DOMAIN sv : before(k) < i /\ i <= before(k) + Len(sv[k].value.routes)].key

(***************************************************************************)
(* C29.  Policy matching ignores which service owns a route and uses only  *)
(* the first match: implementation routes of all services are flattened    *)
(* in document order, and for an auth-required spec route a MissingAuth    *)
(* assumption is registered if and only if the first flattened route with  *)
(* the same method and normalized path lacks an auth keyword, whatever     *)
(* later matching routes carry.  (Stated for a first call that passed the  *)
(* cycle gate and returned, and for the route of the first service         *)
(* declaring the name.)                                                    *)
(***************************************************************************)
C29_FirstFlattenedMatchDecides ==
    (calls = 1 /\ pc = "returned" /\ CycleMessages = <<>>) =>
        /\ ImplRoutes = Concat([k \in DOMAIN routes_data.services |->
                                   routes_data.services[k].value.routes])
        /\ \A n \in Range(AuthRequired) :
               Declared(n) =>
                   LET matching == Matching(PlaceOf(n))
                   IN  Tracked(AuthMissing, TermOf(n)) \in Registered
                           <=> /\ matching # {}
                               /\ ~HasAuthKeyword(ImplRoutes[Least(matching)])

\* MissingAuth was registered for a route of service S whose first match, without
\* auth, is owned by S and followed by a match with auth owned by T; and, in
\* another run, none was registered although a later match lacks auth
C29_Witness ==
    /\ calls = 1 /\ pc = "returned"
    /\ \E n \in Range(AuthRequired) :
           /\ Declared(n)
           /\ Cardinality(Matching(PlaceOf(n))) = 2
           /\ \E i, j \in Matching(PlaceOf(n)) :
                  /\ i < j
                  /\ OwnerOf(i) # OwnerOf(j)
                  /\ OwnerOf(j) # ServiceAt(PlaceOf(n))
                  /\ ~HasAuthKeyword(ImplRoutes[i])
                  /\ HasAuthKeyword(ImplRoutes[j])
           /\ Tracked(AuthMissing, TermOf(n)) \in Registered

\* the other direction: the first match has auth, a later one of another service
\* has none, and nothing is registered
C29_WitnessLaterIgnored ==
    /\ calls = 1 /\ pc = "returned"
    /\ \E n \in Range(AuthRequired) :
           /\ Declared(n)
           /\ \E i, j \in Matching(PlaceOf(n)) :
                  /\ i < j
                  /\ OwnerOf(i) # ServiceAt(PlaceOf(n))
                  /\ HasAuthKeyword(ImplRoutes[i])
                  /\ ~HasAuthKeyword(ImplRoutes[j])
           /\ Registered = {}
           /\ result.is_sat

(***************************************************************************)
(* A run with an authRequired entry no service declares                    *)
(***************************************************************************)
\* what a run leaves of the policy check: how it ended, the assumptions it
\* registered, satisfiable and errors
PolicyView(o) ==
    [pc |-> o.pc, registered |-> o.run.registered,
     is_sat |-> o.result.is_sat, errors |-> o.result.errors]

\* the views a newly constructed engine may leave for the documents of this run
\* with an authRequired list
ViewsWith(authRequired) ==
    {PolicyView(o) : o \in verify(SpecDocWith(authRequired),
                                  [services |-> routes_data.services], NewEngine)}

ThisView == [pc |-> pc, registered |-> run.registered,
             is_sat |-> result.is_sat, errors |-> result.errors]

\* a term name of a route called name, in any declared service
TermsNamed(name) ==
    {TermName(specs_data.services[i].key, name) : i \in DOMAIN specs_data.services} \cup {name}

(***************************************************************************)
(* C30.  A route name listed in policies.authRequired that no service of   *)
(* the specification declares registers no tracked assumption and adds no  *)
(* error: the run's satisfiable value and errors are the same as if that   *)
(* name were not in the list.                                              *)
(***************************************************************************)
C30_UndeclaredNameIsIgnored ==
    (calls = 1 /\ pc # "constructed") =>
        \A i \in DOMAIN AuthRequired :
            ~Declared(AuthRequired[i]) =>
                /\ \A t \in Registered : t.var \notin TermsNamed(AuthRequired[i])
                /\ \A e \in Range(result.errors) : e.subject \notin TermsNamed(AuthRequired[i])
                /\ ThisView \in ViewsWith(Drop(AuthRequired, i))
                /\ ViewsWith(AuthRequired) = ViewsWith(Drop(AuthRequired, i))

\* the undeclared name z stood before a declared name whose requirement failed:
\* the one error is about the declared name
C30_Witness ==
    /\ calls = 1 /\ pc = "returned"
    /\ Len(AuthRequired) = 2
    /\ ~Declared(AuthRequired[1])
    /\ Declared(AuthRequired[2])
    /\ ~result.is_sat
    /\ Len(result.errors) = 1
    /\ result.errors[1].subject = TermOf(AuthRequired[2])

\* the assumptions registered for a route name, whichever service declares it
RegisteredFor(name) ==
    {k \in DOMAIN run.registered : run.registered[k].var \in TermsNamed(name)}

(***************************************************************************)
(* C22.  In one verify run every policy requirement resolves to at most    *)
(* one tracked assumption: for each route name in policies.authRequired at *)
(* most one assumption (MissingAuth or MissingRoute, never both) is        *)
(* registered, and no two registered assumptions of the run carry the same *)
(* name, also when the list repeats a route name or two services declare   *)
(* the same route name.  The run registers them without the solver         *)
(* refusing one: a call that passes the cycle gate returns.                *)
(***************************************************************************)
C22_OneAssumptionPerRequirement ==
    (calls = 1 /\ pc # "constructed" /\ Acyclic) =>
        /\ pc = "returned"
        /\ \A n \in Range(AuthRequired) : Cardinality(RegisteredFor(n)) <= 1
        /\ \A a, b \in DOMAIN run.registered : a # b => run.registered[a] # run.registered[b]

\* what the code keeps of C22: the assumptions the solver accepted
C22_AcceptedAssumptionsDiffer ==
    (calls = 1 /\ pc # "constructed") =>
        /\ \A n \in Range(AuthRequired) : Cardinality(RegisteredFor(n)) <= 1
        /\ \A a, b \in DOMAIN run.registered : a # b => run.registered[a] # run.registered[b]

(***************************************************************************)
(* Terms, as the claims speak of them                                      *)
(***************************************************************************)
\* the declared (service, route name) pairs
DeclaredPairs ==
    {<<ServiceAt(place), RouteAt(place).key>> : place \in AllPlaces}

DeclaredServices == {specs_data.services[i].key : i \in DOMAIN specs_data.services}

\* the terms the run holds
RouteTerms == {route_vars[i].value : i \in DOMAIN route_vars}
ServiceTerms == {service_vars[i].value : i \in DOMAIN service_vars}

(***************************************************************************)
(* C23.  Symbolic modeling allocates one boolean term per declared service *)
(* and one per (service, spec-route) pair: two different (service,         *)
(* route_name) pairs never share a term or a term name, and a route term   *)
(* never coincides with a service term.                                    *)
(***************************************************************************)
C23_OneTermPerPair ==
    (calls = 1 /\ pc # "constructed" /\ Acyclic) =>
        /\ Cardinality(ServiceTerms) = Cardinality(DeclaredServices)
        /\ Cardinality(RouteTerms) = Cardinality(DeclaredPairs)
        /\ \A x, y \in DeclaredPairs : x # y => TermName(x[1], x[2]) # TermName(y[1], y[2])
        /\ RouteTerms \cap ServiceTerms = {}

\* what the code keeps of C23: one term per service, and one per pair as long as
\* no service or route name holds an underscore and no service is called service
C23_OneTermPerPlainPair ==
    (/\ calls = 1 /\ pc # "constructed" /\ Acyclic
     /\ \A x \in DeclaredPairs : "_" \notin Range(x[1]) \cup Range(x[2])
     /\ <<"s", "e", "r", "v", "i", "c", "e">> \notin DeclaredServices) =>
        /\ Cardinality(ServiceTerms) = Cardinality(DeclaredServices)
        /\ Cardinality(RouteTerms) = Cardinality(DeclaredPairs)
        /\ RouteTerms \cap ServiceTerms = {}

(***************************************************************************)
(* Matching, as the claims speak of it                                     *)
(***************************************************************************)
\* the one spec route and the one implementation route of a run
TheSpecMethod == MethodAt(<<1, 1>>)
TheSpecPath == PathAt(<<1, 1>>)
TheImplRoute == ImplRoutes[1]

\* two paths that differ only in the way parameters are written
SameButParameterSyntax(p1, p2) == Rewritings(p1) \cap Rewritings(p2) # {}

\* two paths of which one is the other with one slash appended
OneTrailingSlashApart(p1, p2) == p1 = p2 \o <<"/">> \/ p2 = p1 \o <<"/">>

\* what the two checks found
PolicyCheckMatched == Tracked(RouteMissing, TermName(S, r)) \notin Registered
ConsistencyCheckMatched == result.suggestions = <<>>

OneRouteEach ==
    /\ calls = 1 /\ pc = "returned"
    /\ AllPlaces = {<<1, 1>>}
    /\ Len(ImplRoutes) = 1
    /\ AuthRequired = <<RouteAt(<<1, 1>>).key>>

(***************************************************************************)
(* C26.  Spec-to-implementation matching is exact on method and on         *)
(* normalized path: a spec route and an implementation route with the same *)
(* method match whenever their paths differ only in parameter syntax       *)
(* (':name' versus '{name}') or by one trailing slash, and never match     *)
(* when the methods differ or the normalized paths differ; the policy      *)
(* check and the consistency check use the same matching.                  *)
(***************************************************************************)
C26_MatchingIsExact ==
    OneRouteEach =>
        /\ PolicyCheckMatched <=> ConsistencyCheckMatched
        /\ (/\ TheImplRoute.method = TheSpecMethod
            /\ \/ SameButParameterSyntax(TheSpecPath, TheImplRoute.path)
               \/ OneTrailingSlashApart(TheSpecPath, TheImplRoute.path))
               => PolicyCheckMatched
        /\ (\/ TheImplRoute.method # TheSpecMethod
            \/ _normalize_path(TheImplRoute.path) # _normalize_path(TheSpecPath))
               => ~PolicyCheckMatched

\* what the code keeps of C26: the same, for paths that are not empty and do not
\* end in two slashes
C26_MatchingIsExactOneSlash ==
    (/\ OneRouteEach
     /\ \A p \in {TheSpecPath, TheImplRoute.path} :
            /\ p # <<>>
            /\ Len(p) >= 2 => ~(p[Len(p)] = "/" /\ p[Len(p) - 1] = "/")) =>
        /\ PolicyCheckMatched <=> ConsistencyCheckMatched
        /\ (/\ TheImplRoute.method = TheSpecMethod
            /\ \/ SameButParameterSyntax(TheSpecPath, TheImplRoute.path)
               \/ OneTrailingSlashApart(TheSpecPath, TheImplRoute.path))
               => PolicyCheckMatched
        /\ (\/ TheImplRoute.method # TheSpecMethod
            \/ _normalize_path(TheImplRoute.path) # _normalize_path(TheSpecPath))
               => ~PolicyCheckMatched

(***************************************************************************)
(* Framework selection, as the claims speak of it                          *)
(***************************************************************************)
\* a .py file that can be read and in which no framework marker is found: by
\* the imports and the text if it parses, by the text alone if it does not
NoMarkerDetected(file) ==
    /\ file.path.suffix = ".py"
    /\ file.readable
    /\ IF file.parses THEN file.detected = "Unknown"
       ELSE ~file.mentions_flask /\ ~file.mentions_fastapi

\* what the two extractors yield for a file
FlaskYield(file) == FlaskParse(file).routes
FastAPIYield(file) == FastAPIParse(file).routes

\* the stored form of a list of extracted routes
Stored(routes) == UniqueRoutes(routes, {}, <<>>)

(***************************************************************************)
(* C24.  For a .py file in which neither framework marker is detected,     *)
(* both extractors run and the framework label is decided by their         *)
(* results: only the Flask-style extractor yields routes: its routes and   *)
(* label Flask; only the FastAPI-style extractor yields routes: its routes *)
(* and label FastAPI; both yield routes: the concatenation (Flask-style    *)
(* first) labelled Mixed; neither: no routes and label Unknown.            *)
(***************************************************************************)
C24_BothExtractorsDecide ==
    Parsed_ =>
        \A i \in DOMAIN file_paths :
            NoMarkerDetected(file_paths[i]) =>
                LET f == FlaskYield(file_paths[i])
                    fa == FastAPIYield(file_paths[i])
                    service == ServiceOf(i).value
                IN  /\ (f # <<>> /\ fa = <<>>) =>
                           service.framework = "Flask" /\ service.routes = Stored(f)
                    /\ (f = <<>> /\ fa # <<>>) =>
                           service.framework = "FastAPI" /\ service.routes = Stored(fa)
                    /\ (f # <<>> /\ fa # <<>>) =>
                           service.framework = "Mixed" /\ service.routes = Stored(f \o fa)
                    /\ (f = <<>> /\ fa = <<>>) =>
                           service.framework = "Unknown" /\ service.routes = <<>>

\* the four cases in two runs: Mixed and Flask, and FastAPI and Unknown
C24_Witness ==
    /\ Parsed_
    /\ Len(file_paths) = 2
    /\ \A i \in DOMAIN file_paths : NoMarkerDetected(file_paths[i])
    /\ ServiceOf(1).value.framework = "Mixed"
    /\ ServiceOf(1).value.routes = <<R_get, R_post, R_getOther>>
    /\ ServiceOf(2).value.framework = "Flask"

C24_WitnessOthers ==
    /\ Parsed_
    /\ Len(file_paths) = 2
    /\ \A i \in DOMAIN file_paths : NoMarkerDetected(file_paths[i])
    /\ ServiceOf(1).value.framework = "FastAPI"
    /\ ServiceOf(1).value.routes # <<>>
    /\ ServiceOf(2).value.framework = "Unknown"

\* the same file with another extension
WithSuffix(file, suffix) == [file EXCEPT !.path.suffix = suffix]

\* the service entry parse_files makes for a file given alone
EntryFor(file) == parse_files(<<file>>).final_spec.services[1].value

(***************************************************************************)
(* C25.  Framework selection by extension treats .js and .ts as one        *)
(* grammar family: a .ts file is scanned by the same pattern-based         *)
(* extractor and gets the same framework label and routes as a .js file    *)
(* with identical content; .go files go to the Go extractor and only .py   *)
(* files are content-inspected.                                            *)
(***************************************************************************)
C25_JsAndTsAreOneFamily ==
    Parsed_ =>
        \A i \in DOMAIN file_paths :
            LET file == file_paths[i]
                service == ServiceOf(i).value
            IN  /\ file.path.suffix = ".ts" =>
                       /\ service.framework = EntryFor(WithSuffix(file, ".js")).framework
                       /\ service.routes = EntryFor(WithSuffix(file, ".js")).routes
                /\ file.path.suffix = ".go" =>
                       /\ service.framework = "Go"
                       /\ service.routes = Stored(GoParse(file).routes)
                /\ file.path.suffix # ".py" =>
                       \A flag \in BOOLEAN :
                           /\ service.framework =
                                  EntryFor([file EXCEPT !.mentions_express = flag]).framework
                           /\ service.routes =
                                  EntryFor([file EXCEPT !.mentions_express = flag]).routes

\* what the code keeps of C25: .js files go to the pattern-based extractor and
\* .go files to the Go extractor, whatever their content mentions
C25_JsAndGoByExtension ==
    Parsed_ =>
        \A i \in DOMAIN file_paths :
            LET file == file_paths[i]
                service == ServiceOf(i).value
            IN  /\ file.path.suffix = ".js" =>
                       /\ service.framework = "Express.js"
                       /\ service.routes = Stored(ExpressParse(file).routes)
                /\ file.path.suffix = ".go" =>
                       /\ service.framework = "Go"
                       /\ service.routes = Stored(GoParse(file).routes)


(***************************************************************************)
(* The two graph searches, one loop iteration or call at a time            *)
(***************************************************************************)
\* a plausible slip: a node is not marked visited when it is entered
DfsEnterUnmarked(st, node) ==
    [st EXCEPT !.frames = Append(@, [node |-> node, i |-> 1]),
               !.path = Append(@, node),
               !.entered = Append(@, node)]

\* dfs(node) is entered: path.append(node); visited.add(node); the loop over
\* graph.get(node, []) starts at its first neighbour
DfsEnter(st, node) ==
    [st EXCEPT !.frames = Append(@, [node |-> node, i |-> 1]),
               !.path = Append(@, node),
               !.visited = @ \cup {node},
               !.entered = Append(@, node)]

\* verify begins with analyze_circular_dependencies: graph, visited, path and
\* cycles are fresh
SearchVerify(communications) ==
    /\ search.phase = "idle"
    /\ LET specs == SpecDoc(<<>>, communications, <<>>, <<>>)
       IN  search' = [NotSearching EXCEPT !.phase = "dfs", !.entry = "verify",
                          !.specs = specs,
                          !.keys = DictKeys(_build_dependency_graph(specs))]
    /\ UNCHANGED <<engine_vars, norm_in, norm_out, analyzed, findings, parser_vars>>

\* analyze_performance_bottlenecks called on its own: adj_list and chains are fresh
SearchChains(communications) ==
    /\ search.phase = "idle"
    /\ LET specs == SpecDoc(<<>>, communications, <<>>, <<>>)
       IN  search' = [NotSearching EXCEPT !.phase = "chains", !.entry = "performance",
                          !.specs = specs,
                          !.keys = DictKeys(build_dependency_graph(specs))]
    /\ UNCHANGED <<engine_vars, norm_in, norm_out, analyzed, findings, parser_vars>>

\* for node in graph: if node not in visited: dfs(node)
DfsRoot ==
    /\ search.phase = "dfs"
    /\ search.frames = <<>>
    /\ search.keys # <<>>
    /\ LET node == Head(search.keys)
           rest == [search EXCEPT !.keys = Tail(@)]
       IN  search' = IF node \notin search.visited THEN DfsEnter(rest, node) ELSE rest
    /\ UNCHANGED <<engine_vars, norm_in, norm_out, analyzed, findings, parser_vars>>

\* one iteration of the loop of the innermost dfs call, or its path.pop() and return
DfsStep ==
    /\ search.phase = "dfs"
    /\ search.frames # <<>>
    /\ LET top == search.frames[Len(search.frames)]
           neighbours == DictGet(_build_dependency_graph(search.specs), top.node, <<>>)
       IN  IF top.i > Len(neighbours)
           THEN search' = [search EXCEPT !.frames = ButLast(@), !.path = ButLast(@)]
           ELSE LET neighbour == neighbours[top.i]
                    advanced == [search EXCEPT !.frames[Len(search.frames)].i = @ + 1]
                IN  IF neighbour \in Range(search.path)
                    THEN search' = [advanced EXCEPT !.cycles =
                             Append(@, SubSeq(search.path, IndexOf(search.path, neighbour),
                                              Len(search.path)) \o <<neighbour>>)]
                    ELSE IF neighbour \notin search.visited
                         THEN search' = DfsEnter(advanced, neighbour)
                         ELSE search' = advanced
    /\ UNCHANGED <<engine_vars, norm_in, norm_out, analyzed, findings, parser_vars>>

\* the roots are used up: verify returns at once when a cycle was found, and goes
\* on to the analyzers otherwise
DfsDone ==
    /\ search.phase = "dfs"
    /\ search.frames = <<>>
    /\ search.keys = <<>>
    /\ search' = IF search.cycles # <<>>
                 THEN [search EXCEPT !.phase = "done"]
                 ELSE [search EXCEPT !.phase = "chains",
                                     !.keys = DictKeys(build_dependency_graph(search.specs))]
    /\ UNCHANGED <<engine_vars, norm_in, norm_out, analyzed, findings, parser_vars>>

\* for node in adj_list: path = [node]; stack = [(node, path)]
ChainRoot ==
    /\ search.phase = "chains"
    /\ search.stack = <<>>
    /\ search.keys # <<>>
    /\ search' = [search EXCEPT !.keys = Tail(@),
                     !.stack = <<[node |-> Head(search.keys), path |-> <<Head(search.keys)>>]>>]
    /\ UNCHANGED <<engine_vars, norm_in, norm_out, analyzed, findings, parser_vars>>

\* one iteration of while stack
ChainStep ==
    /\ search.phase = "chains"
    /\ search.stack # <<>>
    /\ LET top == search.stack[Len(search.stack)]
           pushed == Pushed(DictGet(build_dependency_graph(search.specs), top.node, <<>>),
                            top.path, 1)
           is_leaf == pushed = <<>>
       IN  search' = [search EXCEPT
                         !.stack = ButLast(@) \o pushed,
                         !.chains = IF is_leaf /\ Len(top.path) > 1
                                    THEN Append(@, top.path) ELSE @]
    /\ UNCHANGED <<engine_vars, norm_in, norm_out, analyzed, findings, parser_vars>>

\* the nodes are used up: chains is returned
ChainDone ==
    /\ search.phase = "chains"
    /\ search.stack = <<>>
    /\ search.keys = <<>>
    /\ search' = [search EXCEPT !.phase = "done"]
    /\ UNCHANGED <<engine_vars, norm_in, norm_out, analyzed, findings, parser_vars>>

\* the communications the searches are tried on: calls round three services
\* and a self call
SearchComms ==
    {Comm("A", "B", "sync"), Comm("B", "C", "sync"), Comm("C", "A", "sync"),
     Comm("A", "A", "sync")}
SearchCommLists == SeqsUpTo(SearchComms, MaxComms)

SearchStep == DfsRoot \/ DfsStep \/ DfsDone \/ ChainRoot \/ ChainStep \/ ChainDone

NextSearch ==
    \/ \E communications \in SearchCommLists : SearchVerify(communications)
    \/ \E communications \in SearchCommLists : SearchChains(communications)
    \/ SearchStep

\* the interpreter goes on executing a loop or a call that has a next step
SpecSearch == Init /\ [][NextSearch]_vars /\ WF_vars(SearchStep)


NoRepeat(seq) == \A i, j \in DOMAIN seq : seq[i] = seq[j] => i = j

\* dfs was entered for no node twice, and no path on the stack of the chain
\* enumeration holds a node twice
SearchesDoNotRevisit ==
    /\ NoRepeat(search.entered)
    /\ \A i \in DOMAIN search.stack : NoRepeat(search.stack[i].path)

\* what the finished searches hold is what _detect_cycles and
\* _find_synchronous_chains return
SearchesReturnTheResults ==
    search.phase = "done" =>
        /\ search.entry = "verify" =>
               search.cycles = RawCycles(_build_dependency_graph(search.specs))
        /\ (search.entry = "performance" \/ search.cycles = <<>>) =>
               search.chains = _find_synchronous_chains(search.specs)

\* C28: verify terminates on every finite document: a search that has begun,
\* whether on a cyclic graph or not, comes to its end; on the way dfs is
\* entered for each node at most once and the chain enumeration only holds
\* paths without a repeated node.
C28_SearchesTerminate ==
    /\ [](SearchesDoNotRevisit /\ SearchesReturnTheResults)
    /\ (search.phase # "idle") ~> (search.phase = "done")

\* verify on a graph with a cycle through all three services has ended at the
\* cycle gate
C28_Witness ==
    /\ search.phase = "done"
    /\ search.entry = "verify"
    /\ Len(search.entered) = 3
    /\ \E i \in DOMAIN search.cycles : Len(search.cycles[i]) = 4

\* verify on an acyclic graph has ended after both searches
C28_WitnessBothSearches ==
    /\ search.phase = "done"
    /\ search.entry = "verify"
    /\ search.cycles = <<>>
    /\ search.chains # <<>>

\* the chain enumeration alone has ended on a graph of calls with a cycle
C28_WitnessCyclicChains ==
    /\ search.phase = "done"
    /\ search.entry = "performance"
    /\ RawCycles(build_dependency_graph(search.specs)) # <<>>
    /\ search.chains # <<>>

====
